---------------------------- MODULE Spec2Model ----------------------------
(***************************************************************************)
(* A model of Ogre::VulkanProgram (OgreVulkanProgram.cpp): the annotation  *)
(* scan, compile(), unloadHighLevelImpl(), createLowLevelImpl(),           *)
(* gatherVertexInputs() and buildConstantDefinitions().                    *)
(*                                                                         *)
(* The GLSL front-end, the Vulkan driver and SPIRV-Reflect are external:   *)
(* their answers are a deterministic function of the source text (the      *)
(* table SourceDB) or an input of the action (the driver's VkResult).      *)
(***************************************************************************)
EXTENDS Integers, Sequences, FiniteSets, TLC

VARIABLES
    \* ---- one VulkanProgram
    mSource,                    \* index into SourceDB of the current source text
    mSpirv,                     \* std::vector<uint32>
    mShaderModule,              \* VkShaderModule, 0 is the null handle
    mCompiled,
    mCompileError,
    mDescBindingRanges,         \* [set][type] -> [start, end]
    mVertexInputs,
    mNumSystemGenVertexInputs,
    mConstantDefsMap,           \* mConstantDefs->map, name -> definition
    mConstantDefsSorted,
    mConstantsBytesToWrite,
    mConstantDefsBindingParams, \* binding index -> [offset, size]
    mBufferSizes,               \* mConstantDefs->{float,uint,int}BufferSize
    mLogicalToPhysical,         \* m{Float,UInt,Int}LogicalToPhysical: [map, bufferSize]
    \* ---- the device
    liveModules,                \* shader modules created and not destroyed
    numCreated,                 \* shader modules created so far
    \* ---- what the last operation did
    lastOp,
    \* ---- history
    everCompiled,               \* some earlier compile() returned true
    idem,                       \* progress of compile;reflect;compile;reflect
    \* ---- the threads inside buildConstantDefinitions
    cWork,                      \* per thread: the steps of its walk
    cPc,                        \* per thread: position in the append sequence
    cIdx,                       \* per thread: index of the step in hand
    cPhys,                      \* per thread: def.physicalIndex (a local)
    cDone,                      \* the other program: definitions appended
    cMutex,                     \* per buffer: the thread holding the lock, or "free"
    \* ---- arguments and outputs of the calls made on the program
    srcText,                    \* SpecParse: the source under scan, [text, annots, oneLine]
    vertexElements,             \* getLayoutForPso: the mesh layout passed in
    outVertexInputs,            \* getLayoutForPso: attribute descriptions appended
    outBufferBindingDescs,      \* getLayoutForPso: binding descriptions appended
    dstWrites                   \* updateBuffers: the copies made into dstData

progVars == <<mSource, mSpirv, mShaderModule, mCompiled, mCompileError,
              mDescBindingRanges, mVertexInputs, mNumSystemGenVertexInputs>>
reflVars == <<mConstantDefsMap, mConstantDefsSorted, mConstantsBytesToWrite,
              mConstantDefsBindingParams, mBufferSizes>>
devVars  == <<liveModules, numCreated>>
histVars == <<lastOp, everCompiled, idem>>
concVars == <<cWork, cPc, cIdx, cPhys, cDone, cMutex>>
ioVars   == <<srcText, vertexElements, outVertexInputs, outBufferBindingDescs, dstWrites>>
vars == <<progVars, reflVars, mLogicalToPhysical, devVars, histVars, concVars, ioVars>>

-----------------------------------------------------------------------------
(* Bounds of the model *)

\* shader modules the device hands out before the model stops compiling
MaxModules == 3
\* entries of mConstantDefsSorted before the model stops reflecting
MaxDefs == 5
\* definitions one thread appends in SpecConc
MaxConcDefs == 2
\* vertex elements of one mesh layout, over all its buffers
MaxElements == 2
\* the largest instancing step rate a vertex element is given
MaxStepRate == 2
\* annotations in one source text given to the annotation scan
MaxAnnotations == 2

-----------------------------------------------------------------------------
(* Arithmetic and sequences *)

Min(S) == CHOOSE m \in S : \A n \in S : m <= n
min2(a, b) == IF a <= b THEN a ELSE b
max2(a, b) == IF a >= b THEN a ELSE b
Range(f) == {f[i] : i \in DOMAIN f}

\* uint16 and uint32 wrap-around
UINT16_MAX == 65535
Pow2_16 == 65536
toUint16(n) == n % Pow2_16

\* std::string::npos; every position of the model is smaller
npos == 2147483647
\* std::numeric_limits<uint32_t>::max(), the location of a system-generated input
UINT32_MAX == 2147483646

-----------------------------------------------------------------------------
(* std::string over sequences of characters, positions counted from 0 *)

\* std::string::find( pat, from )
Find(str, pat, from) ==
    LET cands == {i \in 0..(Len(str) - Len(pat)) :
                     i >= from /\ SubSeq(str, i + 1, i + Len(pat)) = pat}
    IN  IF cands = {} THEN npos ELSE Min(cands)

\* std::string::substr( pos, count )
Substr(str, pos, count) ==
    IF pos >= Len(str) THEN <<>>
    ELSE SubSeq(str, pos + 1, IF count >= Len(str) - pos THEN Len(str) ELSE pos + count)

Digits == <<"0", "1", "2", "3", "4", "5", "6", "7", "8", "9">>
IsDigit(c) == \E d \in DOMAIN Digits : Digits[d] = c
DigitVal(c) == (CHOOSE d \in DOMAIN Digits : Digits[d] = c) - 1
\* isspace in the "C" locale: space, \t, \n, \v (written as the character
\* itself, TLA+ having no escape for it), \f, \r
IsSpace(c) == c \in {" ", "\t", "\n", "", "\f", "\r"}

\* The digits of a number as strtol( nptr, NULL, 10 ) reads them into a 64-bit
\* long: acc is the magnitude read so far, as four 16-bit limbs, lowest first,
\* and whether it has passed 2^64.
RECURSIVE atoiDigits(_, _, _)
atoiDigits(str, i, acc) ==
    IF i > Len(str) \/ ~IsDigit(str[i]) THEN acc
    ELSE LET c1 == acc.limbs[1] * 10 + DigitVal(str[i])
             c2 == acc.limbs[2] * 10 + c1 \div Pow2_16
             c3 == acc.limbs[3] * 10 + c2 \div Pow2_16
             c4 == acc.limbs[4] * 10 + c3 \div Pow2_16
         IN  atoiDigits(str, i + 1,
                        [limbs |-> <<c1 % Pow2_16, c2 % Pow2_16, c3 % Pow2_16, c4 % Pow2_16>>,
                         over |-> acc.over \/ c4 >= Pow2_16])

RECURSIVE skipSpace(_, _)
skipSpace(str, i) ==
    IF i <= Len(str) /\ IsSpace(str[i]) THEN skipSpace(str, i + 1) ELSE i

\* atoi: leading white space, an optional sign, then decimal digits; 0 if none.
\* The C library computes it as (int) strtol( nptr, NULL, 10 ): the long is
\* LONG_MAX or LONG_MIN when the digits leave its range, and the conversion to
\* int keeps its low 32 bits. For a number outside the range of int, where the
\* C standard leaves atoi undefined, this is the value the library returns.
atoi(str) ==
    LET i == skipSpace(str, 1)
        negative == i <= Len(str) /\ str[i] = "-"
        signed == i <= Len(str) /\ str[i] \in {"-", "+"}
        mag == atoiDigits(str, IF signed THEN i + 1 ELSE i,
                          [limbs |-> <<0, 0, 0, 0>>, over |-> FALSE])
        \* the magnitude does not fit a long: above LONG_MAX, or for a negative
        \* number at or above 2^63, where strtol returns LONG_MIN either way
        saturated == mag.over \/ mag.limbs[4] >= 32768
        \* the low 32 bits of the magnitude, read as an int
        low == IF mag.limbs[2] >= 32768
               THEN (mag.limbs[2] - Pow2_16) * Pow2_16 + mag.limbs[1]
               ELSE mag.limbs[2] * Pow2_16 + mag.limbs[1]
    IN  IF negative
        THEN IF saturated THEN 0                      \* (int) LONG_MIN
             ELSE IF mag.limbs[2] = 32768 /\ mag.limbs[1] = 0 THEN low   \* -2^31
             ELSE 0 - low
        ELSE IF saturated THEN 0 - 1                  \* (int) LONG_MAX
             ELSE low

-----------------------------------------------------------------------------
(* VulkanDescBindingRange and the annotation scan *)

OGRE_VULKAN_MAX_NUM_BOUND_DESCRIPTOR_SETS == 4
NumDescBindingTypes == 8

c_ogreSetKeyword == <<"o", "g", "r", "e", "_", "s", "e", "t">>
c_ogreTypeKeyword == <<"o", "g", "r", "e", "_">>
bufferTypes == <<"s", " ", "t", "u", "T", " ", "B", "U">>
numBufferTypes == Len(bufferTypes)

\* VulkanDescBindingRange::VulkanDescBindingRange
VulkanDescBindingRange == [start |-> UINT16_MAX, end |-> 0]

\* faulty variant: merge raises the end and leaves the start alone
merge_EndOnly(range, idx) ==
    [start |-> range.start, end |-> max2(toUint16(idx + 1), range.end)]

\* VulkanDescBindingRange::merge
merge(range, idx) ==
    [start |-> min2(idx, range.start),
     end   |-> max2(toUint16(idx + 1), range.end)]

EmptyDescBindingRanges ==
    [i \in 0..(OGRE_VULKAN_MAX_NUM_BOUND_DESCRIPTOR_SETS - 1) |->
        [j \in 0..(NumDescBindingTypes - 1) |-> VulkanDescBindingRange]]

\* LwConstString::find_first_of( char )
find_first_of(str, c) ==
    LET cands == {i \in 0..(Len(str) - 1) : str[i + 1] = c}
    IN  IF cands = {} THEN npos ELSE Min(cands)

\* "ogre_set must be in range [0; OGRE_VULKAN_MAX_NUM_BOUND_DESCRIPTOR_SETS)"
SetOutOfRange(iSetNum) ==
    iSetNum < 0 \/ iSetNum >= OGRE_VULKAN_MAX_NUM_BOUND_DESCRIPTOR_SETS

\* faulty variant: the search for the next annotation restarts right after
\* the set number instead of at the end of the line
NextSearchPos_AfterSet(pos, eolMarkerPos) == pos

\* where the search for the next ogre_set restarts
NextSearchPos(pos, eolMarkerPos) == eolMarkerPos

\* The body of the while loop of parseNumBindingsFromSource, from the
\* annotation at startPos on; the result is [err, ranges, seen], seen being
\* the start positions of the annotations the loop looked at.
RECURSIVE parseLoop(_, _, _, _)
parseLoop(src, startPos, ranges, seen) ==
    IF startPos = npos THEN [err |-> FALSE, ranges |-> ranges, seen |-> seen]
    ELSE
    LET pos == startPos + Len(c_ogreSetKeyword)
        eolMarkerPos == Find(src, <<"\n">>, pos)
        endPos0 == Find(src, <<",">>, pos)
        endPos1 == Find(src, <<")">>, pos)
        endPos == min2(endPos0, endPos1)
        fail == [err |-> TRUE, ranges |-> ranges, seen |-> Append(seen, startPos)]
    IN
    IF endPos = npos \/ (endPos >= eolMarkerPos /\ eolMarkerPos # npos) THEN fail
    ELSE
    LET setNumStr == Substr(src, pos, endPos - pos)
        iSetNum == atoi(setNumStr)
    IN
    IF SetOutOfRange(iSetNum) THEN fail
    ELSE
    LET lineStr == Substr(src, pos, eolMarkerPos - pos)
        typeStartPos == Find(lineStr, c_ogreTypeKeyword, 0)
        typePos == typeStartPos + Len(c_ogreTypeKeyword)
    IN
    IF typeStartPos = npos \/ typePos >= Len(lineStr) - 1 THEN fail
    ELSE
    LET typeLetter == lineStr[typePos + 1]
        letterIdx == find_first_of(bufferTypes, typeLetter)
    IN
    IF letterIdx >= numBufferTypes \/ typeLetter = " " THEN fail
    ELSE
    LET buffIdx == atoi(Substr(lineStr, typePos + 1, npos)) IN
    IF buffIdx < 0 \/ buffIdx >= 65535 THEN fail
    ELSE
    parseLoop(src,
              Find(src, c_ogreSetKeyword, NextSearchPos(pos, eolMarkerPos)),
              [ranges EXCEPT ![iSetNum][letterIdx] = merge(@, toUint16(buffIdx))],
              Append(seen, startPos))

\* VulkanProgram::parseNumBindingsFromSource; err is what it does to
\* mCompileError (set, or left alone)
parseNumBindingsFromSource(src) ==
    parseLoop(src, Find(src, c_ogreSetKeyword, 0), EmptyDescBindingRanges, <<>>)

-----------------------------------------------------------------------------
(* The sources the program is given, with what the GLSL front-end, the     *)
(* lowering and SPIRV-Reflect answer for each. The answers are a function  *)
(* of the text: the same source always compiles to the same words.         *)

OGRE_VULKAN_PARAMETER_SLOT == 23

\* annotation text "(ogre_set<N>, ogre_<x><M>)\n"
Annotation(setNum, letter, slot) ==
    <<"(">> \o c_ogreSetKeyword \o setNum \o <<",", " ">> \o
    c_ogreTypeKeyword \o <<letter>> \o slot \o <<")", "\n">>

NoReflection ==
    [createOk |-> TRUE, enumInputsOk |-> TRUE, inputs |-> <<>>,
     enumSetsOk |-> TRUE, sets |-> <<>>]

Member(name, op, flags, rows, cols, comps, stride, dims) ==
    [name |-> name, op |-> op, type_flags |-> flags, row_count |-> rows,
     column_count |-> cols, component_count |-> comps, stride |-> stride,
     dims_count |-> dims]

Binding(binding, type, name, typeName, dims, blockSize, members) ==
    [binding |-> binding, descriptor_type |-> type, name |-> name,
     type_name |-> typeName, dims_count |-> dims,
     block |-> [offset |-> 0, size |-> blockSize, members |-> members]]

\* layout(std140, ogre_set0, ogre_B0) uniform Block { vec4 a; mat4 b; };
BlockReflection ==
    [createOk |-> TRUE, enumInputsOk |-> TRUE,
     inputs |-> << [location |-> 1, format |-> 106],
                   [location |-> UINT32_MAX, format |-> 98],
                   [location |-> 0, format |-> 109] >>,
     enumSetsOk |-> TRUE,
     sets |-> << << Binding(OGRE_VULKAN_PARAMETER_SLOT, "UNIFORM_BUFFER", "", "Block", 0, 80,
                      << Member("a", "OpTypeVector", {"VECTOR", "FLOAT"}, 0, 0, 4, 0, 0),
                         Member("b", "OpTypeMatrix", {"MATRIX", "VECTOR", "FLOAT"}, 4, 4, 4, 16, 0) >>) >> >>]

\* a sampler in set 0, and in set 1 a storage buffer and a block holding a
\* two-dimensional array, a nested struct and a bool
MixedReflection ==
    [createOk |-> TRUE, enumInputsOk |-> TRUE,
     inputs |-> << [location |-> 15, format |-> 98],
                   [location |-> 8, format |-> 103],
                   [location |-> 0, format |-> 106] >>,
     enumSetsOk |-> TRUE,
     sets |-> << << Binding(OGRE_VULKAN_PARAMETER_SLOT, "COMBINED_IMAGE_SAMPLER", "tex", "", 0, 0, <<>>) >>,
                 << Binding(0, "STORAGE_BUFFER", "ssbo", "Ssbo", 0, 16, <<>>),
                    Binding(OGRE_VULKAN_PARAMETER_SLOT, "UNIFORM_BUFFER", "", "Params", 0, 48,
                      << Member("lights", "OpTypeArray", {"ARRAY", "VECTOR", "FLOAT"}, 0, 0, 4, 16, 2),
                         Member("inner", "OpTypeStruct", {"STRUCT"}, 0, 0, 0, 0, 0),
                         Member("flag", "OpTypeBool", {"BOOL"}, 0, 0, 0, 0, 0) >>) >> >>]

\* layout(ogre_set0, ogre_t0) uniform sampler2D tex0;
\* layout(ogre_set1, ogre_t1) uniform sampler2D tex1;
SamplersReflection ==
    [createOk |-> TRUE, enumInputsOk |-> TRUE,
     inputs |-> << [location |-> 0, format |-> 106] >>,
     enumSetsOk |-> TRUE,
     sets |-> << << Binding(OGRE_VULKAN_PARAMETER_SLOT, "COMBINED_IMAGE_SAMPLER", "tex0", "", 0, 0, <<>>) >>,
                 << Binding(OGRE_VULKAN_PARAMETER_SLOT, "COMBINED_IMAGE_SAMPLER", "tex1", "", 0, 0, <<>>) >> >>]

\* layout(ogre_set0, ogre_t1) uniform sampler2D texA;            binding 1
\* layout(std140, ogre_set0, ogre_B0) uniform A { vec4 a; };       parameter slot
\* layout(std140, ogre_set0, ogre_B0) uniform B { vec4 c[1][1]; }; parameter slot
\* layout(ogre_set0, ogre_B0) uniform samplerBuffer;               parameter slot, unnamed
\* three variables share the parameter slot, as SPIR-V lets variables alias
\* one binding; the array of B has two dimensions and one element; the
\* vertex inputs are the second set of texture coordinates, declared vec3, and
\* two built-in ones, which reflection reports at location UINT32_MAX
AliasedReflection ==
    [createOk |-> TRUE, enumInputsOk |-> TRUE,
     inputs |-> << [location |-> UINT32_MAX, format |-> 98],
                   [location |-> 8, format |-> 106],
                   [location |-> UINT32_MAX, format |-> 43] >>,
     enumSetsOk |-> TRUE,
     sets |-> << << Binding(1, "COMBINED_IMAGE_SAMPLER", "texA", "", 0, 0, <<>>),
                    Binding(OGRE_VULKAN_PARAMETER_SLOT, "UNIFORM_BUFFER", "", "A", 0, 16,
                      << Member("a", "OpTypeVector", {"VECTOR", "FLOAT"}, 0, 0, 4, 0, 0) >>),
                    Binding(OGRE_VULKAN_PARAMETER_SLOT, "UNIFORM_BUFFER", "", "B", 0, 16,
                      << Member("c", "OpTypeArray", {"ARRAY", "VECTOR", "FLOAT"}, 0, 0, 4, 16, 2) >>),
                    Binding(OGRE_VULKAN_PARAMETER_SLOT, "UNIFORM_TEXEL_BUFFER", "", "samplerBuffer",
                            0, 0, <<>>) >> >>]

Source(text, parseOk, linkOk, interOk, spirv, refl) ==
    [text |-> text, parseOk |-> parseOk, linkOk |-> linkOk, interOk |-> interOk,
     spirv |-> spirv, refl |-> refl]

SourceDB ==
    << \* 1: the empty source a program is constructed with: no entry point
       Source(<<>>, TRUE, FALSE, FALSE, <<>>, NoReflection),
       \* 2: a valid vertex shader with one uniform block
       Source(Annotation(<<"0">>, "B", <<"0">>), TRUE, TRUE, TRUE, <<7, 2>>, BlockReflection),
       \* 3: the same shader, its annotation naming set 8
       Source(Annotation(<<"8">>, "B", <<"0">>), TRUE, TRUE, TRUE, <<7, 2>>, BlockReflection),
       \* 4: a GLSL syntax error
       Source(Annotation(<<"0">>, "t", <<"1">>), FALSE, FALSE, FALSE, <<>>, NoReflection),
       \* 5: links, but has no intermediate for the stage
       Source(Annotation(<<"1">>, "t", <<"2">>), TRUE, TRUE, FALSE, <<>>, NoReflection),
       \* 6: lowers to an empty word sequence
       Source(<<>>, TRUE, TRUE, TRUE, <<>>, NoReflection),
       \* 7: a valid vertex shader with a sampler, a storage buffer and a block
       Source(Annotation(<<"0">>, "t", <<"0">>) \o Annotation(<<"1">>, "B", <<"1">>),
              TRUE, TRUE, TRUE, <<7, 7>>, MixedReflection),
       \* 8: words SPIRV-Reflect rejects
       Source(<<>>, TRUE, TRUE, TRUE, <<7, 8>>, [NoReflection EXCEPT !.createOk = FALSE]),
       \* 9: a valid shader with one sampler in each of two sets
       Source(Annotation(<<"0">>, "t", <<"0">>) \o Annotation(<<"1">>, "t", <<"1">>),
              TRUE, TRUE, TRUE, <<7, 9>>, SamplersReflection),
       \* 10: a valid shader whose parameter slot is shared by two blocks and a
       \*     texel buffer, with a sampler at another binding
       Source(Annotation(<<"0">>, "t", <<"1">>) \o Annotation(<<"0">>, "B", <<"0">>),
              TRUE, TRUE, TRUE, <<7, 10>>, AliasedReflection),
       \* 11: words SPIRV-Reflect loads, but whose input variables and
       \*     descriptor sets it fails to enumerate
       Source(<<>>, TRUE, TRUE, TRUE, <<7, 11>>,
              [BlockReflection EXCEPT !.enumInputsOk = FALSE, !.enumSetsOk = FALSE]) >>

Sources == DOMAIN SourceDB
EmptySource == 1

\* glslang::TShader::parse
GlslParse(s) == SourceDB[s].parseOk
\* glslang::TProgram::link
GlslLink(s) == SourceDB[s].linkOk
\* glslang::TProgram::getIntermediate
GlslHasIntermediate(s) == SourceDB[s].interOk
\* glslang::GlslangToSpv
GlslangToSpv(s) == SourceDB[s].spirv
\* what SPIRV-Reflect reads out of the words
spvReflect(spirv) == SourceDB[CHOOSE s \in Sources : SourceDB[s].spirv = spirv].refl
\* parseNumBindingsFromSource on each text of the table
AnnotationScan == [s \in Sources |-> parseNumBindingsFromSource(SourceDB[s].text)]

-----------------------------------------------------------------------------
(* gatherVertexInputs *)

SortByVertexInputLocation(a, b) == a.location < b.location

\* std::sort( begin, end, SortByVertexInputLocation() ) leaves the order of
\* elements that compare equal unspecified: the set of the orders it may return
std_sort(seq) ==
    LET isPermutation(out) ==
            \A x \in Range(seq) :
               Cardinality({i \in DOMAIN out : out[i] = x})
                  = Cardinality({i \in DOMAIN seq : seq[i] = x})
        isSorted(out) ==
            \A i \in 1..(Len(seq) - 1) : ~SortByVertexInputLocation(out[i + 1], out[i])
    IN  {out \in [DOMAIN seq -> Range(seq)] : isPermutation(out) /\ isSorted(out)}

attrDescOf(reflVar) ==
    [location |-> reflVar.location, binding |-> 0, format |-> reflVar.format, offset |-> 0]

\* faulty variant: the list is left in the order reflection enumerates
sortedVertexInputs_Unsorted(inputVars) ==
    {[i \in DOMAIN inputVars |-> attrDescOf(inputVars[i])]}

\* what mVertexInputs may be after the loop of push_back and the sort
sortedVertexInputs(inputVars) ==
    std_sort([i \in DOMAIN inputVars |-> attrDescOf(inputVars[i])])

\* VulkanProgram::gatherVertexInputs: the two fields it leaves, and whether it
\* raised; sorted is the order std::sort left the list in
gatherVertexInputs(module, sorted) ==
    IF ~module.enumInputsOk
    THEN [mVertexInputs |-> <<>>, mNumSystemGenVertexInputs |-> 0, raised |-> TRUE]
    ELSE IF Len(module.inputs) = 0
    THEN [mVertexInputs |-> <<>>, mNumSystemGenVertexInputs |-> 0, raised |-> FALSE]
    ELSE [mVertexInputs |-> sorted,
          mNumSystemGenVertexInputs |->
              Cardinality({i \in DOMAIN module.inputs : module.inputs[i].location = UINT32_MAX}),
          raised |-> FALSE]

-----------------------------------------------------------------------------
(* compile *)

\* the conditions of compile(), in the order of the code
\* faulty variants: a guard of compile() that no longer looks at the error flag
ParseGuard_Always(compileError) == TRUE
LinkGuard_Always(compileError) == TRUE
\* faulty variant: compile() never raises
RaiseGuard_Never(compiled, checkErrors) == FALSE

ParseGuard(compileError) == ~compileError
LinkGuard(compileError) == ~compileError
IntermediateGuard(compileError) == ~compileError
LowerGuard(compileError) == ~compileError
CompiledFlag(compileError) == ~compileError
RaiseGuard(compiled, checkErrors) == ~compiled /\ checkErrors
CreateModuleGuard(compiled, spirv) == compiled /\ spirv # <<>>
ReflectGuard(spirv) == spirv # <<>>

\* VulkanProgram::compile run on source s; vk is the driver's answer to
\* vkCreateShaderModule ("ok", or a failure that leaves the handle alone,
\* "failKeep", or nulls it, "failNull"); old holds the fields compile may leave
\* untouched. The result holds every field after the call, the steps taken in
\* order, and how the call ended.
compileEnd(checkErrors, vk, old, annot, e1, e2, e3, spirv, module, gathered) ==
    LET doParse == ParseGuard(annot.err)
        doLink == LinkGuard(e1)
        doInter == IntermediateGuard(e2)
        doLower == LowerGuard(e3)
        compiled == CompiledFlag(e3)
        raiseCompile == RaiseGuard(compiled, checkErrors)
        doCreate == ~raiseCompile /\ CreateModuleGuard(compiled, spirv)
        raiseVk == doCreate /\ vk # "ok"
        handle == IF ~doCreate THEN old.mShaderModule
                  ELSE IF vk = "ok" THEN old.numCreated + 1
                  ELSE IF vk = "failNull" THEN 0
                  ELSE old.mShaderModule
        doReflect == ~raiseCompile /\ ~raiseVk /\ ReflectGuard(spirv)
        raiseReflect == doReflect /\ ~module.createOk
        doGather == doReflect /\ ~raiseReflect
        raiseGather == doGather /\ gathered.raised
        steps == <<"parseNumBindingsFromSource">>
                 \o (IF doParse THEN <<"parse">> ELSE <<>>)
                 \o (IF doLink THEN <<"link">> ELSE <<>>)
                 \o (IF doInter THEN <<"getIntermediate">> ELSE <<>>)
                 \o (IF doLower THEN <<"GlslangToSpv">> ELSE <<>>)
                 \o (IF doCreate THEN <<"vkCreateShaderModule">> ELSE <<>>)
                 \o (IF doReflect THEN <<"spvReflectCreateShaderModule">> ELSE <<>>)
                 \o (IF doGather THEN <<"gatherVertexInputs">> ELSE <<>>)
    IN  [mCompiled |-> compiled,
         mCompileError |-> e3,
         mDescBindingRanges |-> annot.ranges,
         mSpirv |-> spirv,
         mShaderModule |-> handle,
         created |-> doCreate /\ vk = "ok",
         mVertexInputs |-> IF doGather THEN gathered.mVertexInputs ELSE old.mVertexInputs,
         mNumSystemGenVertexInputs |->
             IF doGather THEN gathered.mNumSystemGenVertexInputs
             ELSE old.mNumSystemGenVertexInputs,
         steps |-> steps,
         raisedBy |-> IF raiseCompile THEN "compile"
                      ELSE IF raiseVk THEN "vkCreateShaderModule"
                      ELSE IF raiseReflect THEN "spvReflectCreateShaderModule"
                      ELSE IF raiseGather THEN "spvReflectEnumerateInputVariables"
                      ELSE "none",
         \* reflection modules created by the call and not destroyed by it
         reflOpen |-> IF doReflect /\ ~raiseReflect THEN 1 ELSE 0,
         result |-> IF raiseCompile \/ raiseVk \/ raiseReflect \/ raiseGather THEN "raised"
                    ELSE IF compiled THEN "true" ELSE "false"]

\* spvReflectCreateShaderModule and gatherVertexInputs on the words produced
compileReflect(checkErrors, vk, old, annot, e1, e2, e3, spirv, module, sorted) ==
    compileEnd(checkErrors, vk, old, annot, e1, e2, e3, spirv, module,
               gatherVertexInputs(module, sorted))

\* mSpirv.clear(), then the lowering unless an error is set
compileLower(s, checkErrors, vk, old, annot, e1, e2, e3, sorted) ==
    compileReflect(checkErrors, vk, old, annot, e1, e2, e3,
                   IF LowerGuard(e3) THEN GlslangToSpv(s) ELSE <<>>,
                   spvReflect(IF LowerGuard(e3) THEN GlslangToSpv(s) ELSE <<>>),
                   sorted)

\* getIntermediate unless an error is set
compileIntermediate(s, checkErrors, vk, old, annot, e1, e2, sorted) ==
    compileLower(s, checkErrors, vk, old, annot, e1, e2,
                 e2 \/ (IntermediateGuard(e2) /\ ~GlslHasIntermediate(s)), sorted)

\* link unless an error is set
compileLink(s, checkErrors, vk, old, annot, e1, sorted) ==
    compileIntermediate(s, checkErrors, vk, old, annot, e1,
                        e1 \/ (LinkGuard(e1) /\ ~GlslLink(s)), sorted)

\* parse unless the annotation scan set the error
compileParse(s, checkErrors, vk, old, annot, sorted) ==
    compileLink(s, checkErrors, vk, old, annot,
                annot.err \/ (ParseGuard(annot.err) /\ ~GlslParse(s)), sorted)

\* the order std::sort may leave the inputs of source s in, were they gathered
vertexInputOrders(s) == sortedVertexInputs(spvReflect(GlslangToSpv(s)).inputs)

\* VulkanProgram::compile on source s; sorted is what std::sort returns should
\* gatherVertexInputs reach it
compile(s, checkErrors, vk, old, sorted) ==
    compileParse(s, checkErrors, vk, old, AnnotationScan[s], sorted)

-----------------------------------------------------------------------------
(* GpuConstantDefinition and the three parameter buffers *)

FloatTypes == <<"GCT_FLOAT1", "GCT_FLOAT2", "GCT_FLOAT3", "GCT_FLOAT4">>
IntTypes == <<"GCT_INT1", "GCT_INT2", "GCT_INT3", "GCT_INT4">>
UIntTypes == <<"GCT_UINT1", "GCT_UINT2", "GCT_UINT3", "GCT_UINT4">>
BoolTypes == <<"GCT_BOOL1", "GCT_BOOL2", "GCT_BOOL3", "GCT_BOOL4">>
SamplerTypes == {"GCT_SAMPLER1D", "GCT_SAMPLER2D"}

\* VulkanMappings::get( SpvOp )
VulkanMappings_get(op) ==
    CASE op = "OpTypeBool" -> "GCT_BOOL1"
      [] op = "OpTypeInt" -> "GCT_INT1"
      [] op = "OpTypeFloat" -> "GCT_FLOAT1"
      [] op = "OpTypeVector" -> "GCT_FLOAT4"
      [] op = "OpTypeMatrix" -> "GCT_MATRIX_4X4"
      [] OTHER -> "GCT_UNKNOWN"

\* the if-chain on row and column count
matrixType(rowCount, columnCount) ==
    CASE rowCount = 2 /\ columnCount = 2 -> "GCT_MATRIX_2X2"
      [] rowCount = 2 /\ columnCount = 3 -> "GCT_MATRIX_2X3"
      [] rowCount = 2 /\ columnCount = 4 -> "GCT_MATRIX_2X4"
      [] rowCount = 3 /\ columnCount = 2 -> "GCT_MATRIX_3X2"
      [] rowCount = 3 /\ columnCount = 3 -> "GCT_MATRIX_3X3"
      [] rowCount = 3 /\ columnCount = 4 -> "GCT_MATRIX_3X4"
      [] rowCount = 4 /\ columnCount = 2 -> "GCT_MATRIX_4X2"
      [] rowCount = 4 /\ columnCount = 3 -> "GCT_MATRIX_4X3"
      [] OTHER -> "GCT_MATRIX_4X4"

MatrixSizes ==
    [GCT_MATRIX_2X2 |-> 4, GCT_MATRIX_2X3 |-> 6, GCT_MATRIX_2X4 |-> 8,
     GCT_MATRIX_3X2 |-> 6, GCT_MATRIX_3X3 |-> 9, GCT_MATRIX_3X4 |-> 12,
     GCT_MATRIX_4X2 |-> 8, GCT_MATRIX_4X3 |-> 12, GCT_MATRIX_4X4 |-> 16]

\* GpuConstantDefinition::getElementSize( type, false ), in 4-byte words
getElementSize(constType) ==
    IF constType \in DOMAIN MatrixSizes THEN MatrixSizes[constType]
    ELSE IF \E n \in 1..4 : constType \in {FloatTypes[n], IntTypes[n], UIntTypes[n], BoolTypes[n]}
    THEN CHOOSE n \in 1..4 : constType \in {FloatTypes[n], IntTypes[n], UIntTypes[n], BoolTypes[n]}
    ELSE IF constType \in SamplerTypes THEN 1
    ELSE 4

\* GpuConstantDefinition::isFloat
isFloat(def) == def.constType \in Range(FloatTypes) \cup DOMAIN MatrixSizes
\* GpuConstantDefinition::isUnsignedInt
isUnsignedInt(def) == def.constType \in Range(UIntTypes) \cup Range(BoolTypes)

\* the branch of the three-way placement a definition takes
bufferOf(def) ==
    IF isFloat(def) THEN "float" ELSE IF isUnsignedInt(def) THEN "uint" ELSE "int"

Buffers == {"float", "uint", "int"}

\* device limit VkPhysicalDeviceLimits::minUniformBufferOffsetAlignment
minUniformBufferOffsetAlignment == 64

\* alignMemory( offset, alignment )
alignMemory(offset, alignment) ==
    ((offset + alignment - 1) \div alignment) * alignment

\* std::map::insert and unordered_map::insert: an existing key keeps its value
MapInsert(m, k, v) ==
    [x \in DOMAIN m \cup {k} |-> IF x \in DOMAIN m THEN m[x] ELSE v]

\* GpuConstantDefinition::GpuConstantDefinition
GpuConstantDefinition ==
    [constType |-> "GCT_UNKNOWN", physicalIndex |-> npos, logicalIndex |-> 0,
     elementSize |-> 0, arraySize |-> 1, variability |-> "GPV_GLOBAL"]

\* def.arraySize * def.elementSize
wordsOf(def) == def.arraySize * def.elementSize

\* def.physicalIndex = m*LogicalToPhysical->bufferSize
ReadPhysicalIndex(buf) == buf.bufferSize

\* m*LogicalToPhysical->map.insert( logicalIndex, GpuLogicalIndexUse( ... ) )
InsertUse(buf, def) ==
    [buf EXCEPT !.map = MapInsert(@, def.logicalIndex,
                                  [physicalIndex |-> def.physicalIndex,
                                   currentSize |-> wordsOf(def),
                                   variability |-> "GPV_GLOBAL"])]

\* faulty variant: the running size advances by one element, whatever the array size
AdvanceBuffer_ElementOnly(buf, def) == [buf EXCEPT !.bufferSize = @ + def.elementSize]

\* m*LogicalToPhysical->bufferSize += def.arraySize * def.elementSize
AdvanceBuffer(buf, def) == [buf EXCEPT !.bufferSize = @ + wordsOf(def)]

\* GpuNamedConstants::generateConstantDefinitionArrayEntries
RECURSIVE arrayEntries(_, _, _, _, _)
arrayEntries(map, paramName, arrayDef, i, maxArrayIndex) ==
    IF i >= maxArrayIndex THEN map
    ELSE arrayEntries(MapInsert(map, paramName \o "[" \o ToString(i) \o "]", arrayDef),
                      paramName,
                      [arrayDef EXCEPT !.physicalIndex = @ + arrayDef.elementSize],
                      i + 1, maxArrayIndex)

generateConstantDefinitionArrayEntries(map, paramName, baseDef) ==
    arrayEntries(map, paramName, [baseDef EXCEPT !.arraySize = 1], 0,
                 IF baseDef.arraySize <= 16 THEN baseDef.arraySize ELSE 1)

-----------------------------------------------------------------------------
(* buildConstantDefinitions *)

\* The walk of buildConstantDefinitions over the reflected sets. Which
\* definitions it makes, in which order, and where it raises depends on the
\* reflection data and on the program's own binding parameters only, so the
\* walk is laid out first, as the steps it takes in order:
\*   "def"    one definition placed in its buffer and entered in the program
\*   "bind"   mConstantDefsBindingParams.insert at the end of a binding
\*   "raise"  OGRE_EXCEPT at a member of an illegal component count
\* and the steps are then taken one at a time (BuildConstantDefinitions,
\* ConcRead .. ConcUnlock, BuildPublish). The layout W carries
\*   steps    the steps so far
\*   bparams  mConstantDefsBindingParams as the walk has it
\*   emitted  the length of mConstantDefsSorted as the walk has it
\*   raised   a fatal error ended the walk
\* The type of a block member: a GpuConstantType, "SKIP" for a nested struct
\* (continue), "RAISE" for an illegal component count (OGRE_EXCEPT).
memberConstType(bv) ==
    LET constantType == VulkanMappings_get(bv.op) IN
    IF constantType = "GCT_MATRIX_4X4" THEN matrixType(bv.row_count, bv.column_count)
    ELSE IF "VECTOR" \in bv.type_flags
    THEN IF "FLOAT" \in bv.type_flags
         THEN IF bv.component_count \in 1..4 THEN FloatTypes[bv.component_count] ELSE "RAISE"
         ELSE IF "INT" \in bv.type_flags
         THEN IF bv.component_count \in 1..4 THEN IntTypes[bv.component_count] ELSE "RAISE"
         ELSE constantType
    ELSE IF "STRUCT" \in bv.type_flags THEN "SKIP"
    ELSE constantType

\* the definition of a block member, before its physical placement
memberDef(bv, constantType, prevSize) ==
    [GpuConstantDefinition EXCEPT
        !.constType = constantType,
        !.logicalIndex = prevSize,
        !.elementSize = IF "ARRAY" \in bv.type_flags THEN bv.stride \div 4
                        ELSE getElementSize(constantType),
        !.arraySize = IF "ARRAY" \in bv.type_flags THEN bv.dims_count ELSE 1]

\* the definition of a sampler-like binding, before its physical placement
samplerDef(type, prevSize) ==
    [GpuConstantDefinition EXCEPT
        !.constType = IF type = "SAMPLER" THEN "GCT_SAMPLER2D"
                      ELSE IF type = "UNIFORM_TEXEL_BUFFER" THEN "GCT_SAMPLER1D"
                      ELSE IF type = "COMBINED_IMAGE_SAMPLER" THEN "GCT_SAMPLER2D"
                      ELSE @,
        !.arraySize = 1,
        !.logicalIndex = prevSize,
        !.elementSize = 1]

\* the start of the byte range mConstantsBytesToWrite is raised to cover
bytesStartOfMember(def) == def.logicalIndex
bytesStartOfSampler(def) == def.physicalIndex

\* one definition the walk makes: def0 before its placement, the name it is
\* entered under, the array dimensions of the variable, and the start
\* mConstantsBytesToWrite counts from
defStep(def0, varName, dims, bytesStart) ==
    [kind |-> "def", def |-> def0, varName |-> varName, dims |-> dims,
     bytesStart |-> bytesStart]

RECURSIVE walkMembers(_, _, _, _)
walkMembers(W, members, memberPos, prevSize) ==
    IF memberPos > Len(members) THEN W
    ELSE LET bv == members[memberPos]
             constantType == memberConstType(bv)
         IN  IF constantType = "RAISE"
             THEN [W EXCEPT !.raised = TRUE, !.steps = Append(@, [kind |-> "raise"])]
             ELSE IF constantType = "SKIP" THEN walkMembers(W, members, memberPos + 1, prevSize)
             ELSE walkMembers(
                    [W EXCEPT !.steps = Append(@, defStep(memberDef(bv, constantType, prevSize),
                                                          bv.name, bv.dims_count, "logical")),
                              !.emitted = @ + 1],
                    members, memberPos + 1, prevSize)

\* prevSize after a uniform-block binding
prevSizeAfterBlock(bparams, reflBinding, prevSize) ==
    IF reflBinding.binding \notin DOMAIN bparams
    THEN prevSize + alignMemory(reflBinding.block.size, minUniformBufferOffsetAlignment)
    ELSE prevSize

\* what the walk did at a uniform-block binding: whether the binding index
\* had a recorded binding parameter, prevSize on each side, and the positions
\* in mConstantDefsSorted of the members it emitted (none when to < from)
sighting(bparams, reflBinding, prevSize, from, to) ==
    [binding |-> reflBinding.binding,
     from |-> from,
     to |-> to,
     recorded |-> reflBinding.binding \in DOMAIN bparams,
     size |-> reflBinding.block.size,
     before |-> prevSize,
     after |-> prevSizeAfterBlock(bparams, reflBinding, prevSize)]

\* faulty variant: the loop looks at every binding, whatever its number
isParameterBinding_Any(reflBinding) == TRUE

\* whether the loop over a set's bindings looks at a binding at all
isParameterBinding(reflBinding) == reflBinding.binding = OGRE_VULKAN_PARAMETER_SLOT

RECURSIVE walkBindings(_, _, _, _)
walkBindings(W, bindings, bindingPos, prevSize) ==
    IF bindingPos > Len(bindings) \/ W.raised THEN W
    ELSE
    LET reflBinding == bindings[bindingPos] IN
    IF ~isParameterBinding(reflBinding) THEN walkBindings(W, bindings, bindingPos + 1, prevSize)
    ELSE IF reflBinding.descriptor_type = "UNIFORM_BUFFER"
    THEN LET W1 == walkMembers(W, reflBinding.block.members, 1, prevSize)
             bindingParam == [offset |-> reflBinding.block.offset,
                              size |-> reflBinding.block.size]
         IN  IF W1.raised THEN W1
             ELSE walkBindings(
                    [W1 EXCEPT !.bparams = MapInsert(@, reflBinding.binding, bindingParam),
                               !.steps = Append(@,
                                    [kind |-> "bind", binding |-> reflBinding.binding,
                                     param |-> bindingParam,
                                     sightings |-> <<sighting(W1.bparams, reflBinding, prevSize,
                                                              W.emitted + 1, W1.emitted)>>])],
                    bindings, bindingPos + 1,
                    prevSizeAfterBlock(W1.bparams, reflBinding, prevSize))
    ELSE LET def0 == samplerDef(reflBinding.descriptor_type, prevSize)
             varName == IF reflBinding.name = "" THEN reflBinding.type_name
                        ELSE reflBinding.name
             bindingParam == [offset |-> def0.logicalIndex, size |-> wordsOf(def0)]
         IN  walkBindings(
                [W EXCEPT !.bparams = MapInsert(@, reflBinding.binding, bindingParam),
                          !.steps = @ \o <<defStep(def0, varName, reflBinding.dims_count,
                                                   "physical"),
                                           [kind |-> "bind", binding |-> reflBinding.binding,
                                            param |-> bindingParam, sightings |-> <<>>]>>,
                          !.emitted = @ + 1],
                bindings, bindingPos + 1, prevSize + bindingParam.size)

RECURSIVE walkSets(_, _, _)
walkSets(W, sets, setPos) ==
    IF setPos > Len(sets) \/ W.raised THEN W
    ELSE walkSets(walkBindings(W, sets[setPos], 1, 0), sets, setPos + 1)

\* the "bind" steps from position idx on, taken: the position of the next
\* step of another kind, and the binding parameters and sightings then
RECURSIVE recordBindings(_, _, _, _)
recordBindings(steps, idx, bparams, sightings) ==
    IF idx > Len(steps) \/ steps[idx].kind # "bind"
    THEN [idx |-> idx, bparams |-> bparams, sightings |-> sightings]
    ELSE recordBindings(steps, idx + 1,
                        MapInsert(bparams, steps[idx].binding, steps[idx].param),
                        sightings \o steps[idx].sightings)

-----------------------------------------------------------------------------
(* The state after construction *)

EmptyBuffer == [map |-> <<>>, bufferSize |-> 0]

NoOp == [op |-> "none", checkErrors |-> FALSE, called |-> FALSE, result |-> "void",
         raisedBy |-> "none", steps |-> <<>>, reflOpen |-> 0, afterSuccess |-> FALSE,
         walked |-> FALSE, sightings |-> <<>>, before |-> <<>>]

InitProgram ==
    /\ mSource = EmptySource
    /\ mSpirv = <<>>
    /\ mShaderModule = 0
    /\ mCompiled = FALSE
    /\ mCompileError = FALSE
    /\ mDescBindingRanges = EmptyDescBindingRanges
    /\ mVertexInputs = <<>>
    /\ mNumSystemGenVertexInputs = 0
    /\ mConstantDefsMap = <<>>
    /\ mConstantDefsSorted = <<>>
    /\ mConstantsBytesToWrite = 0
    /\ mConstantDefsBindingParams = <<>>
    /\ mBufferSizes = [b \in Buffers |-> 0]
    /\ mLogicalToPhysical = [b \in Buffers |-> EmptyBuffer]
    /\ liveModules = {}
    /\ numCreated = 0
    /\ lastOp = NoOp
    /\ everCompiled = FALSE
    /\ idem = [phase |-> 0, snap |-> <<>>]

\* the thread that owns the program, and a thread reflecting another program
Program == "program"
Other == "other"

\* the program's thread alone, outside buildConstantDefinitions
InitNoThreads ==
    /\ cWork = [t \in {Program} |-> <<>>]
    /\ cPc = [t \in {Program} |-> "idle"]
    /\ cIdx = [t \in {Program} |-> 1]
    /\ cPhys = [t \in {Program} |-> 0]
    /\ cDone = [t \in {Program} |-> <<>>]
    /\ cMutex = [b \in Buffers |-> "free"]

\* no call with arguments or outputs made yet
InitNoCalls ==
    /\ srcText = <<>>
    /\ vertexElements = <<>>
    /\ outVertexInputs = <<>>
    /\ outBufferBindingDescs = <<>>
    /\ dstWrites = <<>>

Init == InitProgram /\ InitNoThreads /\ InitNoCalls

-----------------------------------------------------------------------------
(* The operations on one program *)

\* what compile and reflection derive from the source
Derived ==
    [mSpirv |-> mSpirv, map |-> mConstantDefsMap, sorted |-> mConstantDefsSorted,
     bytes |-> mConstantsBytesToWrite, vertexInputs |-> mVertexInputs]

oldFields ==
    [mShaderModule |-> mShaderModule, mVertexInputs |-> mVertexInputs,
     mNumSystemGenVertexInputs |-> mNumSystemGenVertexInputs, numCreated |-> numCreated]

\* the fields compile() writes, from its result r
ApplyCompile(s, r) ==
    /\ mSource' = s
    /\ mSpirv' = r.mSpirv
    /\ mShaderModule' = r.mShaderModule
    /\ mCompiled' = r.mCompiled
    /\ mCompileError' = r.mCompileError
    /\ mDescBindingRanges' = r.mDescBindingRanges
    /\ mVertexInputs' = r.mVertexInputs
    /\ mNumSystemGenVertexInputs' = r.mNumSystemGenVertexInputs
    /\ liveModules' = IF r.created THEN liveModules \cup {r.mShaderModule} ELSE liveModules
    /\ numCreated' = IF r.created THEN numCreated + 1 ELSE numCreated
    /\ everCompiled' = (everCompiled \/ r.result = "true")

\* a call of compile( checkErrors ) on source s that ended as r, made by op
CompileCall(op, checkErrors, s, vk, r) ==
    /\ cPc[Program] = "idle"
    /\ r.created => numCreated < MaxModules
    /\ vk # "ok" => "vkCreateShaderModule" \in Range(r.steps)
    /\ ApplyCompile(s, r)
    /\ lastOp' = [op |-> op, checkErrors |-> checkErrors, called |-> TRUE,
                  result |-> r.result, raisedBy |-> r.raisedBy, steps |-> r.steps,
                  reflOpen |-> r.reflOpen, afterSuccess |-> everCompiled,
                  walked |-> FALSE, sightings |-> <<>>, before |-> <<>>]

\* compile( checkErrors ) with the source set to s
Compile(checkErrors, s, vk) ==
    /\ \E sorted \in vertexInputOrders(s) :
          CompileCall("compile", checkErrors, s, vk,
                      compile(s, checkErrors, vk, oldFields, sorted))
    /\ idem' = IF lastOp'.result = "raised" THEN [phase |-> 0, snap |-> <<>>]
               ELSE IF idem.phase = 2 /\ s = mSource THEN [idem EXCEPT !.phase = 3]
               ELSE [phase |-> 1, snap |-> <<>>]
    /\ UNCHANGED <<reflVars, mLogicalToPhysical, concVars, ioVars>>

\* unloadHighLevelImpl()
UnloadHighLevelImpl ==
    /\ cPc[Program] = "idle"
    /\ mCompiled' = FALSE
    /\ mSpirv' = <<>>
    /\ IF mShaderModule # 0
       THEN /\ liveModules' = liveModules \ {mShaderModule}
            /\ mShaderModule' = 0
       ELSE UNCHANGED <<liveModules, mShaderModule>>
    /\ lastOp' = [NoOp EXCEPT !.op = "unloadHighLevelImpl", !.afterSuccess = everCompiled]
    /\ idem' = [phase |-> 0, snap |-> <<>>]
    /\ UNCHANGED <<mSource, mCompileError, mDescBindingRanges, mVertexInputs,
                   mNumSystemGenVertexInputs, numCreated, everCompiled,
                   reflVars, mLogicalToPhysical, concVars, ioVars>>

\* createLowLevelImpl(): compile( true ) unless already compiled
CreateLowLevelImpl(vk) ==
    /\ cPc[Program] = "idle"
    /\ idem' = [phase |-> 0, snap |-> <<>>]
    /\ UNCHANGED <<reflVars, mLogicalToPhysical, concVars, ioVars>>
    /\ IF ~mCompiled
       THEN \E sorted \in vertexInputOrders(mSource) :
               CompileCall("createLowLevelImpl", TRUE, mSource, vk,
                           compile(mSource, TRUE, vk, oldFields, sorted))
       ELSE /\ vk = "ok"
            /\ lastOp' = [NoOp EXCEPT !.op = "createLowLevelImpl",
                                      !.afterSuccess = everCompiled]
            /\ UNCHANGED <<progVars, devVars, everCompiled>>

\* the definition a thread has in hand, its buffer, and the definition as
\* placed at the physical index the thread read
cDef(t) == cWork[t][cIdx[t]].def
cBuf(t) == bufferOf(cDef(t))
cPlaced(t) == [cDef(t) EXCEPT !.physicalIndex = cPhys[t]]

\* buildConstantDefinitions() carried on from step idx of the walk: the
\* binding parameters due are recorded, and the call either stops before the
\* next definition's read of the buffer size or ends, by return or by raise
\* (the reflection module is destroyed on return only).
BuildProceed(steps, idx, sightings, before) ==
    LET r == recordBindings(steps, idx, mConstantDefsBindingParams, sightings)
        raised == r.idx <= Len(steps) /\ steps[r.idx].kind = "raise"
        running == r.idx <= Len(steps) /\ ~raised
    IN  /\ mConstantDefsBindingParams' = r.bparams
        /\ cWork' = [cWork EXCEPT ![Program] = IF running THEN steps ELSE <<>>]
        /\ cIdx' = [cIdx EXCEPT ![Program] = IF running THEN r.idx ELSE 1]
        /\ cPc' = [cPc EXCEPT ![Program] = IF running THEN "read" ELSE "idle"]
        /\ lastOp' = [NoOp EXCEPT !.op = "buildConstantDefinitions",
                                  !.result = IF running THEN "running"
                                             ELSE IF raised THEN "raised" ELSE "void",
                                  !.reflOpen = IF running \/ raised THEN 1 ELSE 0,
                                  !.afterSuccess = everCompiled,
                                  !.walked = ~running,
                                  !.sightings = r.sightings,
                                  !.before = before]
        /\ idem' = IF running THEN idem
                   ELSE IF raised THEN [phase |-> 0, snap |-> <<>>]
                   ELSE IF idem.phase = 1 THEN [phase |-> 2, snap |-> Derived']
                   ELSE IF idem.phase = 3 THEN [idem EXCEPT !.phase = 4]
                   ELSE [phase |-> 0, snap |-> <<>>]

\* buildConstantDefinitions() ended before the walk: how, and with how many
\* reflection modules left open
BuildEndsEarly(result, reflOpen) ==
    /\ lastOp' = [NoOp EXCEPT !.op = "buildConstantDefinitions", !.result = result,
                              !.reflOpen = reflOpen, !.afterSuccess = everCompiled,
                              !.before = [sorted |-> Len(mConstantDefsSorted),
                                          sizes |-> mBufferSizes]]
    /\ idem' = IF result = "raised" THEN [phase |-> 0, snap |-> <<>>]
               ELSE IF idem.phase = 1 THEN [phase |-> 2, snap |-> Derived']
               ELSE IF idem.phase = 3 THEN [idem EXCEPT !.phase = 4]
               ELSE [phase |-> 0, snap |-> <<>>]
    /\ UNCHANGED <<mConstantDefsBindingParams, cWork, cIdx, cPc>>

\* buildConstantDefinitions(): the call, up to the first definition's read of
\* its buffer's size (or to the end, when the walk makes no definition)
BuildConstantDefinitions ==
    /\ cPc[Program] = "idle"
    /\ UNCHANGED <<progVars, devVars, everCompiled, ioVars, mLogicalToPhysical,
                   mConstantDefsMap, mConstantDefsSorted, mConstantsBytesToWrite,
                   mBufferSizes, cPhys, cDone, cMutex>>
    /\ IF mCompileError \/ mSpirv = <<>> THEN BuildEndsEarly("void", 0)
       ELSE LET module == spvReflect(mSpirv) IN
            IF ~module.createOk THEN BuildEndsEarly("raised", 0)
            ELSE IF ~module.enumSetsOk THEN BuildEndsEarly("raised", 1)
            ELSE LET W == walkSets([steps |-> <<>>, bparams |-> mConstantDefsBindingParams,
                                    emitted |-> Len(mConstantDefsSorted), raised |-> FALSE],
                                   module.sets, 1)
                 IN  /\ W.emitted <= MaxDefs
                     /\ BuildProceed(W.steps, 1, <<>>,
                                      [sorted |-> Len(mConstantDefsSorted),
                                       sizes |-> mBufferSizes])

\* def.physicalIndex = buffer->bufferSize, before the lock is taken
ConcRead(t) ==
    /\ cPc[t] = "read"
    /\ cPhys' = [cPhys EXCEPT ![t] = ReadPhysicalIndex(mLogicalToPhysical[cBuf(t)])]
    /\ cPc' = [cPc EXCEPT ![t] = "lock"]
    /\ UNCHANGED <<progVars, reflVars, mLogicalToPhysical, devVars, histVars, ioVars,
                   cWork, cIdx, cDone, cMutex>>

\* OGRE_LOCK_MUTEX
ConcLock(t) ==
    /\ cPc[t] = "lock"
    /\ cMutex[cBuf(t)] = "free"
    /\ cMutex' = [cMutex EXCEPT ![cBuf(t)] = t]
    /\ cPc' = [cPc EXCEPT ![t] = "insert"]
    /\ UNCHANGED <<progVars, reflVars, mLogicalToPhysical, devVars, histVars, ioVars,
                   cWork, cIdx, cPhys, cDone>>

\* map.insert
ConcInsert(t) ==
    /\ cPc[t] = "insert"
    /\ mLogicalToPhysical' =
          [mLogicalToPhysical EXCEPT ![cBuf(t)] = InsertUse(@, cPlaced(t))]
    /\ cPc' = [cPc EXCEPT ![t] = "advance"]
    /\ UNCHANGED <<progVars, reflVars, devVars, histVars, ioVars,
                   cWork, cIdx, cPhys, cDone, cMutex>>

\* bufferSize += arraySize * elementSize
ConcAdvance(t) ==
    /\ cPc[t] = "advance"
    /\ mLogicalToPhysical' =
          [mLogicalToPhysical EXCEPT ![cBuf(t)] = AdvanceBuffer(@, cPlaced(t))]
    /\ cPc' = [cPc EXCEPT ![t] = "mirror"]
    /\ UNCHANGED <<progVars, reflVars, devVars, histVars, ioVars,
                   cWork, cIdx, cPhys, cDone, cMutex>>

\* mConstantDefs->xBufferSize = buffer->bufferSize, still under the lock; the
\* field written is the thread's own program's, and the other program's is
\* not part of the state
ConcMirror(t) ==
    /\ cPc[t] = "mirror"
    /\ mBufferSizes' = IF t = Program
                       THEN [mBufferSizes EXCEPT ![cBuf(t)] =
                                mLogicalToPhysical[cBuf(t)].bufferSize]
                       ELSE mBufferSizes
    /\ cPc' = [cPc EXCEPT ![t] = "unlock"]
    /\ UNCHANGED <<progVars, mConstantDefsMap, mConstantDefsSorted, mConstantsBytesToWrite,
                   mConstantDefsBindingParams, mLogicalToPhysical, devVars, histVars,
                   ioVars, cWork, cIdx, cPhys, cDone, cMutex>>

\* the end of the scope of OGRE_LOCK_MUTEX: the lock released
ConcUnlock(t) ==
    /\ cPc[t] = "unlock"
    /\ cMutex' = [cMutex EXCEPT ![cBuf(t)] = "free"]
    /\ cPc' = [cPc EXCEPT ![t] = "publish"]
    /\ UNCHANGED <<progVars, reflVars, mLogicalToPhysical, devVars, histVars, ioVars,
                   cWork, cIdx, cPhys, cDone>>

\* The rest of one definition of the program, after the lock is released:
\* the array entries and the definition entered in the named map, the
\* definition pushed on mConstantDefsSorted and counted in
\* mConstantsBytesToWrite; then on to the next definition.
BuildPublish ==
    /\ cPc[Program] = "publish"
    /\ UNCHANGED <<progVars, devVars, everCompiled, ioVars, mLogicalToPhysical,
                   mBufferSizes, cDone, cMutex>>
    /\ LET step == cWork[Program][cIdx[Program]]
           def == cPlaced(Program)
           map1 == IF step.dims > 0
                   THEN generateConstantDefinitionArrayEntries(mConstantDefsMap,
                                                               step.varName, def)
                   ELSE mConstantDefsMap
       IN  /\ mConstantDefsMap' = MapInsert(map1, step.varName, def)
           /\ mConstantDefsSorted' = Append(mConstantDefsSorted, def)
           /\ mConstantsBytesToWrite' =
                 max2(mConstantsBytesToWrite,
                      (IF step.bytesStart = "logical" THEN bytesStartOfMember(def)
                       ELSE bytesStartOfSampler(def)) + wordsOf(def) * 4)
           /\ cPhys' = [cPhys EXCEPT ![Program] = 0]
           /\ BuildProceed(cWork[Program], cIdx[Program] + 1, lastOp.sightings,
                           lastOp.before)

\* VulkanProgram::getBufferRequiredSize
getBufferRequiredSize == mConstantsBytesToWrite

\* the memcpy updateBuffers makes for one definition: from which constant
\* list and index it reads, where in dstData it writes, and how many bytes
copyOf(def) ==
    [list |-> bufferOf(def),
     src |-> def.physicalIndex,
     dst |-> def.logicalIndex,
     bytes |-> def.elementSize * def.arraySize * 4]

\* VulkanProgram::updateBuffers: its copies, in the order of mConstantDefsSorted
updateBuffers(sorted) == [i \in DOMAIN sorted |-> copyOf(sorted[i])]

\* updateBuffers( params, dstData )
UpdateBuffers ==
    /\ cPc[Program] = "idle"
    /\ dstWrites' = updateBuffers(mConstantDefsSorted)
    /\ lastOp' = [NoOp EXCEPT !.op = "updateBuffers", !.afterSuccess = everCompiled]
    /\ UNCHANGED <<progVars, reflVars, mLogicalToPhysical, devVars, everCompiled, idem,
                   concVars, srcText, vertexElements, outVertexInputs,
                   outBufferBindingDescs>>

-----------------------------------------------------------------------------
(* getLayoutForPso *)

\* VulkanVaoManager::getAttributeIndexFor
getAttributeIndexFor(semantic) ==
    CASE semantic = "VES_POSITION" -> 0
      [] semantic = "VES_NORMAL" -> 1
      [] semantic = "VES_TEXTURE_COORDINATES" -> 7

\* v1::VertexElement::getTypeSize
getTypeSize(type) ==
    CASE type = "VET_FLOAT2" -> 8
      [] type = "VET_FLOAT3" -> 12

\* VulkanMappings::get( VertexElementType ): the VkFormat of an element type
VulkanMappings_getFormat(type) ==
    CASE type = "VET_FLOAT2" -> 103
      [] type = "VET_FLOAT3" -> 106

VK_FORMAT_R32_UINT == 98
\* the location and the buffer slot reserved for the draw index
DrawIdLocation == 15

\* std::lower_bound( mVertexInputs.begin(), mVertexInputs.end(), locationIdx,
\* SortByVertexInputLocation() ), as a position from 1; Len + 1 is end()
lower_bound(inputs, locationIdx) ==
    Min({i \in 1..Len(inputs) :
            ~SortByVertexInputLocation(inputs[i], [location |-> locationIdx])}
        \cup {Len(inputs) + 1})

\* whether the search found an input at exactly that location
inputFound(inputs, itor, locationIdx) ==
    itor <= Len(inputs) /\ inputs[itor].location = locationIdx

\* the checks made on an element the shader uses
StepRateIllegal(el) == el.mInstancingStepRate > 1
RatesMixed(el, inputRate) ==
    \/ el.mInstancingStepRate = 0 /\ inputRate # "VERTEX"
    \/ el.mInstancingStepRate = 1 /\ inputRate # "INSTANCE"

\* The walk keeps: uvCount, numShaderInputsFound (found), the two output
\* arrays, the input rate and accumulated offset of the buffer in hand, and
\* the error raised ("none" while running).
\* an element the shader uses: the checks, then the description appended
elementUsed(st, el, bufferIdx, shaderInput) ==
    IF StepRateIllegal(el) THEN [st EXCEPT !.raised = "stepRate"]
    ELSE IF st.inputRate # "MAX_ENUM" /\ RatesMixed(el, st.inputRate)
    THEN [st EXCEPT !.raised = "mixedRates"]
    ELSE [st EXCEPT
            !.inputRate = IF @ # "MAX_ENUM" THEN @
                          ELSE IF el.mInstancingStepRate = 0 THEN "VERTEX" ELSE "INSTANCE",
            !.out = Append(@, [shaderInput EXCEPT
                                  !.format = VulkanMappings_getFormat(el.mType),
                                  !.binding = bufferIdx,
                                  !.offset = st.bindAccumOffset]),
            !.found = @ + 1,
            !.bindAccumOffset = @ + getTypeSize(el.mType)]

\* one turn of the element loop, itor being the result of the binary search
elementAt(inputs, st, el, bufferIdx, locationIdx, itor) ==
    IF inputFound(inputs, itor, locationIdx)
    THEN elementUsed(st, el, bufferIdx, inputs[itor])
    ELSE [st EXCEPT !.bindAccumOffset = @ + getTypeSize(el.mType)]

\* faulty variant: every texture-coordinate element is looked up at the base
locationIdxOf_BaseOnly(el, uvCount) == getAttributeIndexFor(el.mSemantic)

\* the location of an element: texture coordinates take successive locations
locationIdxOf(el, uvCount) ==
    getAttributeIndexFor(el.mSemantic)
        + (IF el.mSemantic = "VES_TEXTURE_COORDINATES" THEN uvCount ELSE 0)

elementStep(inputs, st, el, bufferIdx) ==
    elementAt(inputs,
              [st EXCEPT !.uvCount = IF el.mSemantic = "VES_TEXTURE_COORDINATES"
                                     THEN @ + 1 ELSE @],
              el, bufferIdx, locationIdxOf(el, st.uvCount),
              lower_bound(inputs, locationIdxOf(el, st.uvCount)))

RECURSIVE walkElements(_, _, _, _, _)
walkElements(inputs, st, elems, pos, bufferIdx) ==
    IF pos > Len(elems) \/ st.raised # "none" THEN st
    ELSE walkElements(inputs, elementStep(inputs, st, elems[pos], bufferIdx),
                      elems, pos + 1, bufferIdx)

\* the end of one turn of the buffer loop: the buffer is bound only if the
\* shader uses one of its elements
bufferDone(st, bufferIdx) ==
    IF st.raised # "none" \/ st.inputRate = "MAX_ENUM" THEN st
    ELSE [st EXCEPT !.bindings = Append(@, [binding |-> bufferIdx,
                                           stride |-> st.bindAccumOffset,
                                           inputRate |-> st.inputRate])]

\* the loop over the buffers, bufferPos counted from 1 (bufferIdx from 0)
RECURSIVE walkBuffers(_, _, _, _)
walkBuffers(inputs, st, layout, bufferPos) ==
    IF bufferPos > Len(layout) \/ st.raised # "none" THEN st
    ELSE walkBuffers(inputs,
                     bufferDone(walkElements(inputs,
                                             [st EXCEPT !.inputRate = "MAX_ENUM",
                                                        !.bindAccumOffset = 0],
                                             layout[bufferPos], 1, bufferPos - 1),
                                bufferPos - 1),
                     layout, bufferPos + 1)

\* "Check if DRAWID is being used"
drawIdStep(inputs, st, itor) ==
    IF st.raised # "none" \/ ~inputFound(inputs, itor, DrawIdLocation) THEN st
    ELSE [st EXCEPT
            !.out = Append(@, [inputs[itor] EXCEPT !.format = VK_FORMAT_R32_UINT,
                                                   !.binding = DrawIdLocation,
                                                   !.offset = 0]),
            !.found = @ + 1,
            !.bindings = Append(@, [binding |-> DrawIdLocation, stride |-> 4,
                                    inputRate |-> "INSTANCE"])]

\* the final check: the mesh offers fewer attributes than the shader needs
missingStep(inputs, st) ==
    IF st.raised = "none" /\ st.found < Len(inputs)
    THEN [st EXCEPT !.raised = "missing"] ELSE st

\* VulkanProgram::getLayoutForPso on the program's vertex inputs, the two
\* output arrays being empty on entry
getLayoutForPso(inputs, numSystemGen, layout) ==
    missingStep(inputs,
        drawIdStep(inputs,
            walkBuffers(inputs,
                        [uvCount |-> 0, found |-> numSystemGen, out |-> <<>>,
                         bindings |-> <<>>, inputRate |-> "MAX_ENUM",
                         bindAccumOffset |-> 0, raised |-> "none"],
                        layout, 1),
            lower_bound(inputs, DrawIdLocation)))

\* the vertex elements a mesh layout is made of
Semantics == {"VES_POSITION", "VES_NORMAL", "VES_TEXTURE_COORDINATES"}
VertexElement2(semantic, stepRate) ==
    [mSemantic |-> semantic,
     mType |-> IF semantic = "VES_TEXTURE_COORDINATES" THEN "VET_FLOAT2" ELSE "VET_FLOAT3",
     mInstancingStepRate |-> stepRate]
ElementKinds == {VertexElement2(s, r) : s \in Semantics, r \in 0..MaxStepRate}

\* the elements elems cut into buffers after the positions in cuts
RECURSIVE splitLayout(_, _, _)
splitLayout(elems, cuts, pos) ==
    IF pos > Len(elems) THEN <<>>
    ELSE LET next == Min({c \in cuts : c >= pos} \cup {Len(elems)})
         IN  <<SubSeq(elems, pos, next)>> \o splitLayout(elems, cuts, next + 1)

\* getLayoutForPso( vertexElements, outBufferBindingDescs, outVertexInputs )
GetLayoutCall(layout, r) ==
    /\ cPc[Program] = "idle"
    /\ vertexElements' = layout
    /\ outVertexInputs' = r.out
    /\ outBufferBindingDescs' = r.bindings
    /\ lastOp' = [NoOp EXCEPT !.op = "getLayoutForPso",
                              !.called = TRUE,
                              !.result = IF r.raised = "none" THEN "void" ELSE "raised",
                              !.raisedBy = r.raised,
                              !.afterSuccess = everCompiled]
    /\ UNCHANGED <<progVars, reflVars, mLogicalToPhysical, devVars, everCompiled, idem,
                   concVars, srcText, dstWrites>>

GetLayoutForPso(layout) ==
    GetLayoutCall(layout, getLayoutForPso(mVertexInputs, mNumSystemGenVertexInputs, layout))

-----------------------------------------------------------------------------
(* The annotation scan on generated source texts *)

\* a number as it is written in a source text
RECURSIVE Decimal(_)
Decimal(n) ==
    IF n < 0 THEN <<"-">> \o Decimal(0 - n)
    ELSE IF n < 10 THEN <<Digits[n + 1]>>
    ELSE Decimal(n \div 10) \o <<Digits[(n % 10) + 1]>>

\* the annotations a text is written from: layout( ogre_set<set>, ogre_<letter><slot> )
AnnotationSets == {0, 1, OGRE_VULKAN_MAX_NUM_BOUND_DESCRIPTOR_SETS, -1}
AnnotationLetters == {"t", "B"}
AnnotationSlots == {3, 4, UINT16_MAX - 1}
AnnotationKinds == [set : AnnotationSets, letter : AnnotationLetters, slot : AnnotationSlots]

\* how a text writes its numbers: plainly; after white space, which atoi skips
\* (a carriage return, a form feed and a vertical tab); or with 2^32 added to
\* the set index, or to the slot, which takes the number out of the range of int
AnnotationStyles == {"plain", "padded", "wideSet", "wideSlot"}

\* n + 4294967296 as it is written, for n in 0..65535
WideDecimal(n) ==
    LET low == 67296 + n
        units == <<10000, 1000, 100, 10, 1>>
    IN  (IF low >= 100000 THEN <<"4", "2", "9", "5", "0">> ELSE <<"4", "2", "9", "4", "9">>)
           \o [k \in 1..5 |-> Digits[(((low % 100000) \div units[k]) % 10) + 1]]

\* one annotation without the end of its line
AnnotationText(a, style) ==
    LET pad == IF style = "padded" THEN <<"\r", "\f", "">> ELSE <<>> IN
    <<"(">> \o c_ogreSetKeyword \o pad
            \o (IF a.wideSet THEN WideDecimal(a.set) ELSE Decimal(a.set))
            \o <<",", " ">> \o c_ogreTypeKeyword \o <<a.letter>> \o pad
            \o (IF a.wideSlot THEN WideDecimal(a.slot) ELSE Decimal(a.slot))
            \o <<")">>

\* the text of a list of annotations: one per line, or all on one line
RECURSIVE SourceText(_, _, _)
SourceText(annots, oneLine, style) ==
    IF annots = <<>> THEN <<>>
    ELSE AnnotationText(Head(annots), style)
            \o (IF oneLine /\ Len(annots) > 1 THEN <<" ">> ELSE <<"\n">>)
            \o SourceText(Tail(annots), oneLine, style)

\* a source text and what it was written from; an annotation is marked with
\* the numbers it writes with 2^32 added (negative ones are written plainly)
SourceOf(kinds, oneLine, style) ==
    LET annots == [k \in DOMAIN kinds |->
                      [set |-> kinds[k].set, letter |-> kinds[k].letter,
                       slot |-> kinds[k].slot,
                       wideSet |-> style = "wideSet" /\ kinds[k].set >= 0,
                       wideSlot |-> style = "wideSlot"]]
    IN  [text |-> SourceText(annots, oneLine, style), annots |-> annots,
         oneLine |-> oneLine]

\* a program constructed and given one of the generated texts as its source
InitParse ==
    /\ InitProgram
    /\ InitNoThreads
    /\ \E n \in 0..MaxAnnotations :
          \E kinds \in [1..n -> AnnotationKinds], oneLine \in BOOLEAN,
             style \in AnnotationStyles :
             srcText = SourceOf(kinds, oneLine, style)
    /\ vertexElements = <<>>
    /\ outVertexInputs = <<>>
    /\ outBufferBindingDescs = <<>>
    /\ dstWrites = <<>>

\* the fields parseNumBindingsFromSource writes, from its result r; lastOp
\* keeps in steps the start positions of the annotations the loop looked at
ParseCall(r) ==
    /\ cPc[Program] = "idle"
    /\ mDescBindingRanges' = r.ranges
    /\ mCompileError' = (mCompileError \/ r.err)
    /\ lastOp' = [NoOp EXCEPT !.op = "parseNumBindingsFromSource",
                              !.called = TRUE,
                              !.result = IF r.err THEN "false" ELSE "true",
                              !.steps = r.seen]
    /\ UNCHANGED <<mSource, mSpirv, mShaderModule, mCompiled, mVertexInputs,
                   mNumSystemGenVertexInputs, reflVars, mLogicalToPhysical, devVars,
                   everCompiled, idem, concVars, ioVars>>

\* parseNumBindingsFromSource() on the text of srcText
ParseNumBindingsFromSource ==
    ParseCall(parseNumBindingsFromSource(srcText.text))

NextParse == ParseNumBindingsFromSource

SpecParse == InitParse /\ [][NextParse]_vars

VkResults == {"ok", "failKeep", "failNull"}

\* The life of one program: compile, reload and unload.
Next ==
    \/ \E checkErrors \in BOOLEAN, s \in Sources, vk \in VkResults : Compile(checkErrors, s, vk)
    \/ UnloadHighLevelImpl
    \/ \E vk \in VkResults : CreateLowLevelImpl(vk)

Spec == Init /\ [][Next]_vars

\* Compilation and constant-definition reflection of one program, the driver
\* creating every module it is asked for.
NextReflect ==
    \/ \E s \in Sources : Compile(FALSE, s, "ok")
    \/ BuildConstantDefinitions
    \/ ConcRead(Program)
    \/ ConcLock(Program)
    \/ ConcInsert(Program)
    \/ ConcAdvance(Program)
    \/ ConcMirror(Program)
    \/ ConcUnlock(Program)
    \/ BuildPublish
    \/ UpdateBuffers

SpecReflect == Init /\ [][NextReflect]_vars

\* The life of one program on a driver that creates every module it is
\* asked for.
NextDriverOk ==
    \/ \E checkErrors \in BOOLEAN, s \in Sources : Compile(checkErrors, s, "ok")
    \/ UnloadHighLevelImpl
    \/ CreateLowLevelImpl("ok")

SpecDriverOk == Init /\ [][NextDriverOk]_vars

\* One program, compiled once after construction, its vertex inputs then
\* matched against a mesh layout. getLayoutForPso reads the program and writes
\* only the caller's arrays, so one call per run covers every call.
NextPso ==
    \/ \E s \in Sources : lastOp.op = "none" /\ Compile(FALSE, s, "ok")
    \/ \E n \in 0..MaxElements :
          \E elems \in [1..n -> ElementKinds], cuts \in SUBSET (1..(n - 1)) :
             lastOp.op = "compile" /\ GetLayoutForPso(splitLayout(elems, cuts, 1))

SpecPso == Init /\ [][NextPso]_vars

\* any sequence of compiles and of layout matches against one-element meshes
NextInputs ==
    \/ \E checkErrors \in BOOLEAN, s \in Sources : Compile(checkErrors, s, "ok")
    \/ \E el \in ElementKinds : GetLayoutForPso(<< <<el>> >>)

SpecInputs == Init /\ [][NextInputs]_vars


-----------------------------------------------------------------------------
(* Concurrent reflection: the program is reflected on its thread while       *)
(* another program, on another thread, appends to the same three parameter  *)
(* buffers. One append is the statements                                    *)
(*     def.physicalIndex = buffer->bufferSize;                              *)
(*     OGRE_LOCK_MUTEX( buffer->mutex );                                    *)
(*     buffer->map.insert( ... );                                           *)
(*     buffer->bufferSize += def.arraySize * def.elementSize;               *)
(*     mConstantDefs->xBufferSize = buffer->bufferSize;                     *)
(* and the scoped lock is released at the end of the branch.                *)

Threads == {Program, Other}

\* the definitions the other program may have to place: a vec4 member and a
\* sampler
ConcDefKinds ==
    { memberDef(Member("a", "OpTypeVector", {"VECTOR", "FLOAT"}, 0, 0, 4, 0, 0), "GCT_FLOAT4", 0),
      samplerDef("COMBINED_IMAGE_SAMPLER", 0) }

WorkLists ==
    {[i \in 1..MaxConcDefs |-> defStep(kinds[i], "", 0, "logical")] :
        kinds \in [1..MaxConcDefs -> ConcDefKinds]}

InitConc ==
    /\ InitProgram
    /\ InitNoCalls
    /\ \E work \in WorkLists : cWork = [t \in Threads |-> IF t = Other THEN work ELSE <<>>]
    /\ cPc = [t \in Threads |-> IF t = Other THEN "read" ELSE "idle"]
    /\ cIdx = [t \in Threads |-> 1]
    /\ cPhys = [t \in Threads |-> 0]
    /\ cDone = [t \in Threads |-> <<>>]
    /\ cMutex = [b \in Buffers |-> "free"]

\* the rest of one definition of the other program, after the lock is
\* released: the definition pushed to its list
ConcPublish(t) ==
    /\ cPc[t] = "publish"
    /\ cDone' = [cDone EXCEPT ![t] = Append(@, [def |-> cPlaced(t)])]
    /\ cIdx' = [cIdx EXCEPT ![t] = @ + 1]
    /\ cPc' = [cPc EXCEPT ![t] = IF cIdx[t] < Len(cWork[t]) THEN "read" ELSE "done"]
    /\ UNCHANGED <<progVars, reflVars, mLogicalToPhysical, devVars, histVars, ioVars,
                   cWork, cPhys, cMutex>>

\* One compile of the program and one reflection of it, the other program
\* appending its definitions at any time.
NextConc ==
    \/ \E s \in Sources : lastOp.op = "none" /\ Compile(FALSE, s, "ok")
    \/ lastOp.op = "compile" /\ BuildConstantDefinitions
    \/ \E t \in Threads :
          \/ ConcRead(t)
          \/ ConcLock(t)
          \/ ConcInsert(t)
          \/ ConcAdvance(t)
          \/ ConcMirror(t)
          \/ ConcUnlock(t)
    \/ BuildPublish
    \/ ConcPublish(Other)

SpecConc == InitConc /\ [][NextConc]_vars

-----------------------------------------------------------------------------
(* Properties *)

CompileOrder ==
    <<"parseNumBindingsFromSource", "parse", "link", "getIntermediate", "GlslangToSpv",
      "vkCreateShaderModule", "spvReflectCreateShaderModule", "gatherVertexInputs">>

PosInOrder(step) == CHOOSE i \in DOMAIN CompileOrder : CompileOrder[i] = step

InCompileOrder(steps) ==
    \A i, j \in DOMAIN steps : i < j => PosInOrder(steps[i]) < PosInOrder(steps[j])

\* the front-end step named fails on source s
StepFails(step, s) ==
    \/ step = "parse" /\ ~GlslParse(s)
    \/ step = "link" /\ ~GlslLink(s)
    \/ step = "getIntermediate" /\ ~GlslHasIntermediate(s)

\* the GLSL of source s parses, links and lowers to a non-empty module
GlslWouldSucceed(s) ==
    GlslParse(s) /\ GlslLink(s) /\ GlslHasIntermediate(s) /\ GlslangToSpv(s) # <<>>

DefsIn(b) == SelectSeq(mConstantDefsSorted, LAMBDA d : bufferOf(d) = b)

RangesDisjoint(d1, d2) ==
    \/ d1.physicalIndex + wordsOf(d1) <= d2.physicalIndex
    \/ d2.physicalIndex + wordsOf(d2) <= d1.physicalIndex

RECURSIVE SumWords(_)
SumWords(defs) ==
    IF defs = <<>> THEN 0 ELSE wordsOf(defs[1]) + SumWords(Tail(defs))

\* C1: in every state reached by compile and unload operations the shader
\* module handle is non-null exactly when the SPIR-V buffer is non-empty.
C1_ModuleIffSpirv == (mShaderModule # 0) <=> (mSpirv # <<>>)

\* C2: a compile that fails without raising, after an earlier successful
\* compile, leaves the SPIR-V empty, the module handle null, the vertex-input
\* list empty and the system-generated count 0.
C2_FailedRecompileClearsDerived ==
    (lastOp.op = "compile" /\ ~lastOp.checkErrors /\ lastOp.result = "false"
        /\ lastOp.afterSuccess)
    => /\ mSpirv = <<>>
       /\ mShaderModule = 0
       /\ mVertexInputs = <<>>
       /\ mNumSystemGenVertexInputs = 0

\* C3: compile then reflect, run twice on the same unchanged source, leaves
\* the SPIR-V, the constant definitions (names, types, offsets, number), the
\* required buffer size and the vertex inputs as the first run left them.
C3_RecompileIdempotent == idem.phase = 4 => Derived = idem.snap

\* the definitions appended to buffer b: the program's, then the other
\* program's
ConcAppended(b) ==
    DefsIn(b) \o [i \in DOMAIN SelectSeq(cDone[Other], LAMBDA e : bufferOf(e.def) = b) |->
                    SelectSeq(cDone[Other], LAMBDA e : bufferOf(e.def) = b)[i].def]

\* both programs have appended all their definitions
ConcAllDone ==
    /\ lastOp.op = "buildConstantDefinitions" /\ lastOp.walked /\ lastOp.result = "void"
    /\ cPc[Other] = "done"

\* C4: under concurrent reflection no two definitions of one buffer receive
\* equal or overlapping physical ranges, and once every thread is done the
\* running size of a buffer is the sum of the word counts appended to it.
C4_ConcurrentAppendsDisjoint ==
    \A b \in Buffers :
        /\ \A i, j \in DOMAIN ConcAppended(b) :
              i # j => RangesDisjoint(ConcAppended(b)[i], ConcAppended(b)[j])
        /\ ConcAllDone => mLogicalToPhysical[b].bufferSize = SumWords(ConcAppended(b))

\* C5 as stated: a malformed annotation does not block compilation; a source
\* whose GLSL is fine is still parsed, linked, lowered and reported compiled.
C5_AnnotationFailureDoesNotBlock ==
    (lastOp.called /\ AnnotationScan[mSource].err /\ GlslWouldSucceed(mSource))
    => /\ {"parse", "link", "GlslangToSpv"} \subseteq Range(lastOp.steps)
       /\ mSpirv = GlslangToSpv(mSource)
       /\ mCompiled

\* C5 amended: a malformed annotation blocks compilation; compile runs none
\* of the GLSL steps, leaves the SPIR-V empty and fails (returns false, or
\* raises under raise-on-failure).
C5_AnnotationFailureBlocks ==
    (lastOp.called /\ AnnotationScan[mSource].err)
    => /\ lastOp.steps = <<"parseNumBindingsFromSource">>
       /\ mSpirv = <<>>
       /\ ~mCompiled
       /\ mCompileError
       /\ lastOp.result = IF lastOp.checkErrors THEN "raised" ELSE "false"

C5_Witness ==
    /\ lastOp.called
    /\ AnnotationScan[mSource].err
    /\ GlslWouldSucceed(mSource)

\* C6: compile without raise-on-failure runs its steps in the order parse,
\* link, get intermediate, lower, create module, reflect; a failing parse,
\* link or get-intermediate is the last step run, and compile returns false
\* with the error flag set, the compiled flag clear and the SPIR-V empty.
C6_ShortCircuit ==
    (lastOp.called /\ ~lastOp.checkErrors)
    => /\ InCompileOrder(lastOp.steps)
       /\ \A k \in DOMAIN lastOp.steps :
             StepFails(lastOp.steps[k], mSource)
             => /\ k = Len(lastOp.steps)
                /\ mCompileError
                /\ lastOp.result = "false"
                /\ ~mCompiled
                /\ mSpirv = <<>>

C6_Witness ==
    /\ lastOp.called
    /\ ~lastOp.checkErrors
    /\ \E k \in DOMAIN lastOp.steps : StepFails(lastOp.steps[k], mSource)

\* C7: compile with raise-on-failure never returns false: a failed
\* compilation raises before any module creation or reflection; without
\* raise-on-failure a failed compilation returns false and never raises; a
\* normal return value equals the compiled flag, the negation of the error flag.
C7_RaiseOnFailure ==
    lastOp.called
    => /\ lastOp.checkErrors => lastOp.result # "false"
       /\ (lastOp.checkErrors /\ mCompileError)
             => /\ lastOp.result = "raised"
                /\ lastOp.raisedBy = "compile"
                /\ Range(lastOp.steps) \cap {"vkCreateShaderModule",
                      "spvReflectCreateShaderModule", "gatherVertexInputs"} = {}
       /\ ~lastOp.checkErrors
             => /\ lastOp.raisedBy # "compile"
                /\ mCompileError => lastOp.result = "false"
       /\ lastOp.result \in {"true", "false"}
             => /\ (lastOp.result = "true") = mCompiled
                /\ mCompiled = ~mCompileError

C7_Witness ==
    /\ lastOp.called
    /\ lastOp.checkErrors
    /\ lastOp.result = "raised"
    /\ lastOp.raisedBy = "compile"

\* C8: when lowering yields no words although no step reported an error,
\* compile creates no module and fails: the compiled flag is false and the
\* call returns false or raises.
C8_EmptySpirvIsFailure ==
    (lastOp.called /\ "GlslangToSpv" \in Range(lastOp.steps) /\ mSpirv = <<>>)
    => /\ "vkCreateShaderModule" \notin Range(lastOp.steps)
       /\ ~mCompiled
       /\ lastOp.result \in {"false", "raised"}

\* the end of the last of the definitions ds of one buffer
EndOfLast(ds) ==
    IF ds = <<>> THEN 0 ELSE ds[Len(ds)].physicalIndex + wordsOf(ds[Len(ds)])

\* the program has read the size of buffer b for the definition in hand and
\* has not pushed the definition yet
InHand(b) ==
    /\ cPc[Program] \in {"lock", "insert", "advance", "mirror", "unlock", "publish"}
    /\ cBuf(Program) = b

\* the program has advanced buffer b by the definition in hand and has not
\* pushed the definition yet
AdvancedInHand(b) ==
    /\ cPc[Program] \in {"mirror", "unlock", "publish"}
    /\ cBuf(Program) = b

\* C9: single-threaded, in every state inside and outside reflection: each
\* definition of a buffer starts where the one before it ended (the first at
\* 0), so offsets never decrease in discovery order and no two ranges of a
\* buffer overlap; the offset read for the definition in hand is the running
\* size before its append, the end of the last definition pushed; the running
\* size is that end, plus the words of the definition in hand once the size
\* has advanced by it; and the published size equals the running size except
\* between the advance and the mirror.
C9_PhysicalOffsetsPacked ==
    \A b \in Buffers :
        LET ds == DefsIn(b) IN
        /\ \A i \in DOMAIN ds :
              ds[i].physicalIndex =
                  IF i = 1 THEN 0 ELSE ds[i - 1].physicalIndex + wordsOf(ds[i - 1])
        /\ \A i, j \in DOMAIN ds :
              i < j => /\ ds[i].physicalIndex <= ds[j].physicalIndex
                       /\ RangesDisjoint(ds[i], ds[j])
        /\ InHand(b) => cPhys[Program] = EndOfLast(ds)
        /\ mLogicalToPhysical[b].bufferSize =
              EndOfLast(ds) + (IF AdvancedInHand(b) THEN wordsOf(cDef(Program)) ELSE 0)
        /\ (cPc[Program] = "mirror" /\ cBuf(Program) = b)
              \/ mBufferSizes[b] = mLogicalToPhysical[b].bufferSize

C9_Witness ==
    /\ lastOp.op = "buildConstantDefinitions"
    /\ lastOp.walked
    /\ \E b \in Buffers : Len(DefsIn(b)) >= 3
    /\ \E i \in DOMAIN mConstantDefsSorted : mConstantDefsSorted[i].arraySize > 1

\* the name is one generateConstantDefinitionArrayEntries made for an element
\* of an array variable, "<variable>[<i>]"
IsArrayElementName(n) ==
    \E base \in DOMAIN mConstantDefsMap, i \in 0..15 :
        n = base \o "[" \o ToString(i) \o "]"

\* C10: after reflection no two distinct named variables of the program have
\* the same logical offset.
C10_LogicalOffsetUnique ==
    \A n1, n2 \in DOMAIN mConstantDefsMap :
        (~IsArrayElementName(n1) /\ ~IsArrayElementName(n2) /\ n1 # n2)
        => mConstantDefsMap[n1].logicalIndex # mConstantDefsMap[n2].logicalIndex

\* the end of the byte range a definition occupies in the destination buffer
dstEndOf(def) == def.logicalIndex + def.elementSize * def.arraySize * 4

\* the high-water mark of dstEndOf over a list of definitions
RECURSIVE HighWater(_)
HighWater(defs) ==
    IF defs = <<>> THEN 0
    ELSE max2(HighWater(SubSeq(defs, 1, Len(defs) - 1)), dstEndOf(defs[Len(defs)]))

\* C11: the size getBufferRequiredSize reports is the high-water mark, over
\* the reflected definitions, of destination start offset plus size in bytes,
\* and every copy updateBuffers made lies inside [0, getBufferRequiredSize()).
C11_RequiredSizeCoversWrites ==
    /\ getBufferRequiredSize = HighWater(mConstantDefsSorted)
    /\ \A i \in DOMAIN dstWrites :
          /\ dstWrites[i].dst >= 0
          /\ dstWrites[i].dst + dstWrites[i].bytes <= getBufferRequiredSize

-----------------------------------------------------------------------------
(* Vertex-input matching *)

\* the elements of a layout in the order the buffers list them
RECURSIVE Flatten(_)
Flatten(layout) ==
    IF layout = <<>> THEN <<>> ELSE Head(layout) \o Flatten(Tail(layout))

\* the number of texture-coordinate elements among the first n elements
UvBefore(elems, n) ==
    Cardinality({k \in 1..n : elems[k].mSemantic = "VES_TEXTURE_COORDINATES"})

\* the shader locations the elements of a layout map to
MeshLocations(layout) ==
    LET elems == Flatten(layout)
    IN  {getAttributeIndexFor(elems[k].mSemantic)
            + (IF elems[k].mSemantic = "VES_TEXTURE_COORDINATES"
               THEN UvBefore(elems, k - 1) ELSE 0) : k \in DOMAIN elems}

\* the locations of the shader inputs the mesh has to provide
RequiredLocations ==
    {mVertexInputs[i].location : i \in DOMAIN mVertexInputs}
        \ {UINT32_MAX, DrawIdLocation}

\* the shader declares the draw-index input
DeclaresDrawId == \E i \in DOMAIN mVertexInputs : mVertexInputs[i].location = DrawIdLocation

StepRatesOf(buffer) == {buffer[k].mInstancingStepRate : k \in DOMAIN buffer}
AllStepRates(layout) == UNION {StepRatesOf(layout[b]) : b \in DOMAIN layout}
MixesRates(layout) == \E b \in DOMAIN layout : {0, 1} \subseteq StepRatesOf(layout[b])

\* getLayoutForPso was the last call, made on a compiled program that has
\* vertex inputs
PsoCalled == lastOp.op = "getLayoutForPso" /\ mCompiled /\ mVertexInputs # <<>>

\* C12: a mesh layout that leaves a shader input with an explicit location
\* (other than the draw index) without an element makes getLayoutForPso
\* raise, whatever else the layout holds.
C12_MissingInputRaises ==
    (PsoCalled /\ ~(RequiredLocations \subseteq MeshLocations(vertexElements)))
    => lastOp.result = "raised"

\* the byte offset of element k of a buffer
RECURSIVE OffsetOf(_, _)
OffsetOf(buffer, k) ==
    IF k <= 1 THEN 0 ELSE OffsetOf(buffer, k - 1) + getTypeSize(buffer[k - 1].mType)

\* a description carries the buffer index and byte offset of a mesh element
\* of the layout, or the reserved slot of the draw index
BindingAndOffsetSet(desc, layout) ==
    \/ desc.location = DrawIdLocation /\ desc.binding = DrawIdLocation /\ desc.offset = 0
    \/ \E b \in DOMAIN layout : \E k \in DOMAIN layout[b] :
          desc.binding = b - 1 /\ desc.offset = OffsetOf(layout[b], k)

\* C13: with a mesh layout that provides every location the shader needs,
\* step rates legal and not mixed, getLayoutForPso succeeds and appends one
\* description per declared input (the draw index included when declared),
\* each with binding and offset set, and never two for one shader input.
C13_SupersetMatchesExactly ==
    (/\ PsoCalled
     /\ RequiredLocations \subseteq MeshLocations(vertexElements)
     /\ AllStepRates(vertexElements) \subseteq {0, 1}
     /\ ~MixesRates(vertexElements))
    => /\ lastOp.result = "void"
       /\ Len(outVertexInputs)
             = Cardinality(RequiredLocations) + (IF DeclaresDrawId THEN 1 ELSE 0)
       /\ \A i, j \in DOMAIN outVertexInputs :
             outVertexInputs[i].location = outVertexInputs[j].location => i = j
       /\ \A i \in DOMAIN outVertexInputs :
             BindingAndOffsetSet(outVertexInputs[i], vertexElements)

\* C14: a buffer whose elements mix step rate 0 and step rate 1 makes
\* getLayoutForPso raise, whichever comes first and whichever of the
\* elements the shader uses.
C14_MixedRatesRaise ==
    (PsoCalled /\ MixesRates(vertexElements)) => lastOp.result = "raised"

\* C15: an element with a step rate greater than 1, in any buffer, makes
\* getLayoutForPso raise.
C15_StepRateAboveOneRaises ==
    (PsoCalled /\ \E r \in AllStepRates(vertexElements) : r > 1)
    => lastOp.result = "raised"

-----------------------------------------------------------------------------
(* The binding range table *)

ParseCalled == lastOp.op = "parseNumBindingsFromSource"

\* the column of a type letter in the table
LetterColumn(letter) ==
    CASE letter = "s" -> 0 [] letter = "t" -> 2 [] letter = "u" -> 3
      [] letter = "T" -> 4 [] letter = "B" -> 6 [] letter = "U" -> 7

\* the set index and the slot an annotation names are in range; a number
\* written with 2^32 added is not
SetInRange(a) == ~a.wideSet /\ a.set \in 0..(OGRE_VULKAN_MAX_NUM_BOUND_DESCRIPTOR_SETS - 1)
ValidAnnotation(a) == SetInRange(a) /\ ~a.wideSlot /\ a.slot \in 0..(UINT16_MAX - 1)
AllValid(annots) == \A k \in DOMAIN annots : ValidAnnotation(annots[k])

\* the annotations that are the first of their textual line
FirstOfLine(src) ==
    IF src.oneLine THEN SubSeq(src.annots, 1, min2(1, Len(src.annots))) ELSE src.annots

\* the slots a list of annotations writes for one cell
SlotsWritten(annots, set, column) ==
    {annots[k].slot : k \in {k \in DOMAIN annots :
        annots[k].set = set /\ LetterColumn(annots[k].letter) = column}}

\* the table holding, for each cell, the minimum and the maximum plus one of
\* the slots the annotations write for it, and the empty range elsewhere
TableOf(annots) ==
    [set \in 0..(OGRE_VULKAN_MAX_NUM_BOUND_DESCRIPTOR_SETS - 1) |->
        [column \in 0..(NumDescBindingTypes - 1) |->
            IF SlotsWritten(annots, set, column) = {} THEN [start |-> 65535, end |-> 0]
            ELSE [start |-> Min(SlotsWritten(annots, set, column)),
                  end |-> 1 + CHOOSE m \in SlotsWritten(annots, set, column) :
                                \A n \in SlotsWritten(annots, set, column) : m >= n]]]

\* C16 as written: after the scan of a valid annotation sequence the table
\* is the table of every annotation written in the source, annotations that
\* share a textual line included.
C16_EveryAnnotationContributes ==
    (ParseCalled /\ AllValid(srcText.annots))
    => /\ lastOp.result = "true"
       /\ mDescBindingRanges = TableOf(srcText.annots)

\* C16: after the scan of a valid annotation sequence each cell has start
\* the minimum and end the maximum plus one of the slots written for it by
\* the annotations that are the first of their textual line, and every other
\* cell is the empty range; an annotation that shares a line with an earlier
\* one contributes nothing.
C16_FirstOfLineContributes ==
    (ParseCalled /\ AllValid(srcText.annots))
    => /\ lastOp.result = "true"
       /\ ~mCompileError
       /\ mDescBindingRanges = TableOf(FirstOfLine(srcText))

C16_Witness ==
    /\ ParseCalled
    /\ AllValid(srcText.annots)
    /\ Len(srcText.annots) = 2
    /\ ~srcText.oneLine
    /\ \E set \in 0..(OGRE_VULKAN_MAX_NUM_BOUND_DESCRIPTOR_SETS - 1) :
          mDescBindingRanges[set][LetterColumn("t")] = [start |-> 3, end |-> 65535]

\* the position of the first annotation of a list whose set index is out of
\* range, 0 if there is none
FirstBadSet(annots) ==
    IF \A k \in DOMAIN annots : SetInRange(annots[k]) THEN 0
    ELSE Min({k \in DOMAIN annots : ~SetInRange(annots[k])})

\* the scan failed at annotation k of the list: the error is set, the table
\* holds what the annotations before k merged, and k is the last one looked at
FailedAt(annots, k) ==
    /\ lastOp.result = "false"
    /\ mCompileError
    /\ mDescBindingRanges = TableOf(SubSeq(annots, 1, k - 1))
    /\ Len(lastOp.steps) = k

\* C17: an annotation naming a set index at or above the maximum set count,
\* or a negative one, makes the scan fail at it: the error flag is set, it
\* merges nothing, and no annotation after it is looked at. Stated for the
\* annotations the scan reaches (the first of each textual line), the ones
\* before the failing one being valid.
C17_BadSetFails ==
    LET reached == FirstOfLine(srcText)
        k == FirstBadSet(reached)
    IN  (ParseCalled /\ k # 0 /\ AllValid(SubSeq(reached, 1, k - 1)))
        => FailedAt(reached, k)

\* C18: after a failing scan every cell of the table is the empty range.
C18_FailureLeavesNoPartialResults ==
    (ParseCalled /\ lastOp.result = "false")
    => mDescBindingRanges = EmptyDescBindingRanges

Cells ==
    {mDescBindingRanges[set][column] :
        set \in 0..(OGRE_VULKAN_MAX_NUM_BOUND_DESCRIPTOR_SETS - 1),
        column \in 0..(NumDescBindingTypes - 1)}

\* C19 as written: every cell satisfies start <= end in every reachable state.
C19_StartAtMostEnd == \A cell \in Cells : cell.start <= cell.end

\* C19: every cell is the empty range (start 65535, end 0) or has start < end,
\* in every reachable state.
C19_EmptyOrStartBelowEnd ==
    \A cell \in Cells : cell = VulkanDescBindingRange \/ cell.start < cell.end

C19_Witness ==
    /\ ParseCalled
    /\ \E cell \in Cells : cell.start < cell.end /\ cell.end = UINT16_MAX
    /\ \E cell \in Cells : cell = VulkanDescBindingRange

\* a later set binds, for some letter, a slot at or below a slot an earlier
\* set uses
ContinuationBroken(annots) ==
    \E i, j \in DOMAIN annots :
        /\ annots[i].letter = annots[j].letter
        /\ annots[i].set < annots[j].set
        /\ annots[j].slot <= annots[i].slot

\* C20: the scan rejects a source that breaks the continuation rule, and in
\* the table of a successful scan the ranges of one letter are disjoint and
\* increase with the set index.
C20_ContinuationRuleEnforced ==
    ParseCalled
    => /\ (AllValid(FirstOfLine(srcText)) /\ ContinuationBroken(FirstOfLine(srcText)))
             => lastOp.result = "false"
       /\ lastOp.result = "true"
          => \A column \in 0..(NumDescBindingTypes - 1) :
                \A s1, s2 \in 0..(OGRE_VULKAN_MAX_NUM_BOUND_DESCRIPTOR_SETS - 1) :
                   (/\ s1 < s2
                    /\ mDescBindingRanges[s1][column] # VulkanDescBindingRange
                    /\ mDescBindingRanges[s2][column] # VulkanDescBindingRange)
                   => mDescBindingRanges[s1][column].end
                         <= mDescBindingRanges[s2][column].start

-----------------------------------------------------------------------------
(* buildConstantDefinitions: the running logical offset across bindings *)

BuildWalked == lastOp.op = "buildConstantDefinitions" /\ lastOp.walked

\* the advance the device's alignment gives a block of the given byte size
PaddedSize(size) == alignMemory(size, minUniformBufferOffsetAlignment)

\* C21: at a uniform-block binding whose index has no recorded binding
\* parameter (first sighting) the running logical offset is left alone; it is
\* advanced by the alignment-padded block size only when the index is met again.
C21_PaddingOnRepeatSightingOnly ==
    BuildWalked =>
        \A i \in DOMAIN lastOp.sightings :
            LET p == lastOp.sightings[i] IN
            IF p.recorded THEN p.after = p.before + PaddedSize(p.size)
            ELSE p.after = p.before

-----------------------------------------------------------------------------
(* buildConstantDefinitions: the bindings that are not uniform blocks *)

NonBlockKinds == {"SAMPLER", "UNIFORM_TEXEL_BUFFER", "COMBINED_IMAGE_SAMPLER"}

RECURSIVE FlattenSets(_)
FlattenSets(sets) ==
    IF sets = <<>> THEN <<>> ELSE Head(sets) \o FlattenSets(Tail(sets))

\* the bindings reflection enumerates for the compiled words, in order
EnumeratedBindings == FlattenSets(spvReflect(mSpirv).sets)

IsNonBlock(reflBinding) == reflBinding.descriptor_type \in NonBlockKinds
IsNonBlockAtSlot(reflBinding) ==
    IsNonBlock(reflBinding) /\ reflBinding.binding = OGRE_VULKAN_PARAMETER_SLOT

\* the definitions the last reflection run appended
Appended ==
    SubSeq(mConstantDefsSorted, lastOp.before.sorted + 1, Len(mConstantDefsSorted))

IsSamplerDef(def) == def.constType \in SamplerTypes

KeyOf(reflBinding) ==
    IF reflBinding.name = "" THEN reflBinding.type_name ELSE reflBinding.name

\* the words the definitions appended before position j put in the buffer of defs[j]
RECURSIVE WordsBefore(_, _, _)
WordsBefore(defs, j, i) ==
    IF i >= j THEN 0
    ELSE (IF bufferOf(defs[i]) = bufferOf(defs[j]) THEN wordsOf(defs[i]) ELSE 0)
         + WordsBefore(defs, j, i + 1)

\* positions of the sampler definitions among the appended ones
SamplerPositions == {j \in DOMAIN Appended : IsSamplerDef(Appended[j])}

\* the k-th smallest member of a set of positions
RECURSIVE Nth(_, _)
Nth(S, k) == IF k = 1 THEN Min(S) ELSE Nth(S \ {Min(S)}, k - 1)

\* one definition per given binding, in order: size 1 x 1, under the
\* binding's key in the named map, placed at its buffer's running size
OneDefinitionEach(reflBindings) ==
    /\ Cardinality(SamplerPositions) = Len(reflBindings)
    /\ \A k \in DOMAIN reflBindings :
          LET j == Nth(SamplerPositions, k)
              def == Appended[j]
          IN  /\ def.elementSize = 1
              /\ def.arraySize = 1
              /\ KeyOf(reflBindings[k]) \in DOMAIN mConstantDefsMap
              /\ mConstantDefsMap[KeyOf(reflBindings[k])].elementSize = 1
              /\ mConstantDefsMap[KeyOf(reflBindings[k])].arraySize = 1
              /\ def.physicalIndex =
                     lastOp.before.sizes[bufferOf(def)] + WordsBefore(Appended, j, 1)

BuildReturned == BuildWalked /\ lastOp.result = "void"

\* C22 as written: every non-block binding reflection enumerates, whatever
\* its binding number, yields exactly one definition of size 1 x 1 under its
\* name (or type name), placed by the three-way rule.
C22_EveryNonBlockBindingYieldsOne ==
    BuildReturned => OneDefinitionEach(SelectSeq(EnumeratedBindings, IsNonBlock))

\* C22, amended: every non-block binding at the parameter slot yields exactly
\* one such definition; a non-block binding with another number yields none.
C22_NonBlockAtParameterSlotYieldsOne ==
    BuildReturned => OneDefinitionEach(SelectSeq(EnumeratedBindings, IsNonBlockAtSlot))

\* a run over a shader with an unnamed texel buffer at the parameter slot and
\* a sampler at another binding: one definition, under the type name
C22_Witness ==
    /\ BuildReturned
    /\ \E i \in DOMAIN EnumeratedBindings :
          IsNonBlock(EnumeratedBindings[i]) /\ ~IsNonBlockAtSlot(EnumeratedBindings[i])
    /\ \E i \in DOMAIN EnumeratedBindings :
          IsNonBlockAtSlot(EnumeratedBindings[i]) /\ EnumeratedBindings[i].name = ""
    /\ Cardinality(SamplerPositions) = 1

-----------------------------------------------------------------------------
(* buildConstantDefinitions: the members of a block against its byte size *)

\* the definitions the walk emitted for the members of a block it met
MembersOf(p) == SubSeq(mConstantDefsSorted, p.from, p.to)

\* C23: for every successfully reflected uniform block, the words of its
\* emitted members (element size x array size, summed), in bytes, do not
\* exceed the byte size reflection reports for the block.
C23_MembersFitBlockSize ==
    BuildReturned =>
        \A i \in DOMAIN lastOp.sightings :
            SumWords(MembersOf(lastOp.sightings[i])) * 4 <= lastOp.sightings[i].size

-----------------------------------------------------------------------------
(* the vertex-input list between compile and getLayoutForPso *)

SortedByLocation(inputs) ==
    \A i, j \in DOMAIN inputs : i < j => inputs[i].location <= inputs[j].location

SystemGenerated(inputs) == {i \in DOMAIN inputs : inputs[i].location = UINT32_MAX}

\* C24: in every state reached by compile and getLayoutForPso calls the
\* vertex-input list is sorted by location ascending and the count of
\* system-generated inputs is the number of entries at the sentinel location,
\* hence at most the length of the list.
C24_VertexInputsSortedAndCounted ==
    /\ SortedByLocation(mVertexInputs)
    /\ mNumSystemGenVertexInputs = Cardinality(SystemGenerated(mVertexInputs))
    /\ mNumSystemGenVertexInputs <= Len(mVertexInputs)

\* a layout matched against a shader whose inputs reflection lists out of
\* order, one of them system-generated
C24_Witness ==
    /\ lastOp.op = "getLayoutForPso"
    /\ mNumSystemGenVertexInputs = 1
    /\ Len(mVertexInputs) > 2
    /\ ~SortedByLocation(spvReflect(mSpirv).inputs)

-----------------------------------------------------------------------------
(* getLayoutForPso: where each mesh element is looked up and what it emits *)

IsUv(el) == el.mSemantic = "VES_TEXTURE_COORDINATES"

\* the texture-coordinate elements of a buffer before position k
UvInBuffer(buffer, k) == Cardinality({m \in 1..(k - 1) : IsUv(buffer[m])})

\* the texture-coordinate elements of the mesh before element k of buffer b
RECURSIVE UvCountBefore(_, _, _)
UvCountBefore(layout, b, k) ==
    IF b = 1 THEN UvInBuffer(layout[1], k)
    ELSE UvCountBefore(layout, b - 1, Len(layout[b - 1]) + 1) + UvInBuffer(layout[b], k)

\* the location element k of buffer b is to be looked up at
LookupLocation(layout, b, k) ==
    getAttributeIndexFor(layout[b][k].mSemantic)
        + (IF IsUv(layout[b][k]) THEN UvCountBefore(layout, b, k) ELSE 0)

ShaderLocations == {mVertexInputs[i].location : i \in DOMAIN mVertexInputs}

\* the description a matched element is to emit
DescriptionOf(layout, b, k) ==
    [location |-> LookupLocation(layout, b, k),
     binding |-> b - 1,
     offset |-> OffsetOf(layout[b], k),
     format |-> VulkanMappings_getFormat(layout[b][k].mType)]

\* the descriptions of the matched elements of buffers b.., from element k on
RECURSIVE DescriptionsFrom(_, _, _)
DescriptionsFrom(layout, b, k) ==
    IF b > Len(layout) THEN <<>>
    ELSE IF k > Len(layout[b]) THEN DescriptionsFrom(layout, b + 1, 1)
    ELSE (IF LookupLocation(layout, b, k) \in ShaderLocations
          THEN <<DescriptionOf(layout, b, k)>> ELSE <<>>)
         \o DescriptionsFrom(layout, b, k + 1)

\* the descriptions emitted for mesh elements: all but the draw index's
MeshDescriptions == SelectSeq(outVertexInputs, LAMBDA d : d.binding # DrawIdLocation)

\* the call walked every element: it returned, or raised only at the final count
WalkedAllElements == PsoCalled /\ lastOp.raisedBy \in {"none", "missing"}

\* C25: the k-th texture-coordinate element of the mesh, counted over all
\* buffers whether or not earlier ones matched, is looked up at the
\* texture-coordinate base + k; every matched element emits one description
\* with the buffer index as binding, the byte sizes of the elements before it
\* in its buffer as offset, and the format of the mesh element.
C25_LookupAndDescription ==
    WalkedAllElements => MeshDescriptions = DescriptionsFrom(vertexElements, 1, 1)

\* a call that returned, in which a second texture-coordinate element was
\* matched after an unmatched first one, with a format other than the shader's
C25_Witness ==
    /\ PsoCalled
    /\ lastOp.result = "void"
    /\ \E i \in DOMAIN outVertexInputs :
          /\ outVertexInputs[i].location = getAttributeIndexFor("VES_TEXTURE_COORDINATES") + 1
          /\ outVertexInputs[i].offset > 0
          /\ \E j \in DOMAIN mVertexInputs :
                /\ mVertexInputs[j].location = outVertexInputs[i].location
                /\ mVertexInputs[j].format # outVertexInputs[i].format

-----------------------------------------------------------------------------
(* the GPU shader modules and the reflection modules a program creates *)

\* C26: at most one GPU shader module created for the program is alive at
\* any time, and an alive module is the one the handle names: compile never
\* overwrites a non-null handle with a new module without destroying the old.
C26_AtMostOneModuleAlive ==
    /\ Cardinality(liveModules) <= 1
    /\ liveModules \subseteq {mShaderModule}

\* the last operation is one that creates reflection modules, and is over
CreatesReflection ==
    /\ lastOp.op \in {"compile", "createLowLevelImpl", "buildConstantDefinitions"}
    /\ lastOp.result # "running"

\* C27: every reflection module created by compile or by
\* buildConstantDefinitions is destroyed before the operation returns or
\* raises: none is left open by the call that created it.
C27_ReflectionModuleDestroyed == CreatesReflection => lastOp.reflOpen = 0

-----------------------------------------------------------------------------
(* buildConstantDefinitions: the logical-to-physical maps *)

\* the definition has its entry in the map of its category
Registered(def) ==
    LET m == mLogicalToPhysical[bufferOf(def)].map IN
    /\ def.logicalIndex \in DOMAIN m
    /\ m[def.logicalIndex].physicalIndex = def.physicalIndex
    /\ m[def.logicalIndex].currentSize = wordsOf(def)

\* the sizes of the entries of a map, summed
RECURSIVE SumSizes(_, _)
SumSizes(m, keys) ==
    IF keys = {} THEN 0
    ELSE LET k == CHOOSE x \in keys : TRUE
         IN  m[k].currentSize + SumSizes(m, keys \ {k})

\* C28: after constant-definition reflection every emitted definition is
\* registered in the logical-to-physical map of its category under its
\* logical offset, with its physical offset and size, and the running size of
\* each category is the sum of the sizes of the entries of its map.
C28_EveryDefinitionRegistered ==
    BuildReturned =>
        /\ \A i \in DOMAIN mConstantDefsSorted : Registered(mConstantDefsSorted[i])
        /\ \A b \in Buffers :
              mLogicalToPhysical[b].bufferSize
                 = SumSizes(mLogicalToPhysical[b].map, DOMAIN mLogicalToPhysical[b].map)

====
